---- MODULE Spec2Model ----
(***************************************************************************)
(* Culling hierarchy (TreeNode, MeshInstance, ObjModelNode), the geometric *)
(* primitives it rests on (Plane, AABB, Frustum) and the program that      *)
(* drives them (rasterize.ts).                                             *)
(*                                                                         *)
(* Numbers.  gl-matrix stores every vec3 in a Float32Array, so             *)
(* Number.MAX_VALUE is stored as +Infinity and Number.MIN_VALUE as 0.      *)
(* Finite coordinates are integers (exact arithmetic); MAX_VALUE stands    *)
(* for the stored Infinity and lies above every finite coordinate.  The    *)
(* arithmetic of AABB.planeIntersect, which meets these infinities, is     *)
(* done on extended numbers (finite, +-Infinity, NaN) by the IEEE rules.   *)
(* A plane's normal and offset are kept as integers n, d with len2, the    *)
(* square of the positive factor that normalisation divided them by:       *)
(* the plane is (n, d) / sqrt(len2).                                       *)
(* Lengths in the clipping part are in units of 0.001.                     *)
(***************************************************************************)
EXTENDS Integers, Sequences, FiniteSets, TLC

VARIABLES
    node,        \* the hierarchy: node id -> kind, children, aabb, transform, mesh
    pending,     \* program: per model, how far its asynchronous load has come
    displayCharacters, \* program: the mode switch of key C
    lastOp,      \* the operation that ran last
    lastCall,    \* appendVisibleSet: the receiver, frustum and drawAll of the last call
    visibleSet,  \* appendVisibleSet: the list the last call appended to
    call,        \* geometry: the last call of a Plane / AABB / Frustum function
    settings,    \* program: the other mode switches and sampleCountIndex
    shaders,     \* program: main, the shader requests in flight and the AO programs
    passes,      \* renderModels: the passes the last frame issued, in order
    textures     \* TextureData: the cache, the image loads and the last call

vars == <<node, pending, displayCharacters, lastOp, lastCall, visibleSet, call,
          settings, shaders, passes, textures>>

----------------------------------------------------------------------------
(* Bounds of the model *)

\* node ids available to the hierarchy
MaxNodes == 4
\* model files of the scene (scene.environment and scene.characters together)
MaxModels == 1
\* meshes (groups) per OBJ file
MaxMeshes == 2
\* vertices of a clipped loop
MaxLoop == 3
\* the largest kernel size tried besides those of sampleCounts
MaxSamples == 40
\* updateSampleCount calls in flight at a time
MaxUpdates == 2

(* Program constants *)

\* Number.MAX_VALUE in a Float32Array: Infinity, above every finite coordinate
MAX_VALUE == 1000
\* Number.MIN_VALUE in a Float32Array: 0
MIN_VALUE == 0
\* the on-plane band of clipConvexPolygon, 0.001, in units of 0.001
EPSILON == 1

----------------------------------------------------------------------------
(* gl-matrix vec3 *)

Dot(a, b) == a[1] * b[1] + a[2] * b[2] + a[3] * b[3]
VAdd(a, b) == <<a[1] + b[1], a[2] + b[2], a[3] + b[3]>>
VSub(a, b) == <<a[1] - b[1], a[2] - b[2], a[3] - b[3]>>
VScale(a, k) == <<a[1] * k, a[2] * k, a[3] * k>>
VMul(a, b) == <<a[1] * b[1], a[2] * b[2], a[3] * b[3]>>
Cross(a, b) ==
    <<a[2] * b[3] - a[3] * b[2], a[3] * b[1] - a[1] * b[3], a[1] * b[2] - a[2] * b[1]>>
Min2(x, y) == IF x <= y THEN x ELSE y
Max2(x, y) == IF x >= y THEN x ELSE y
VMin(a, b) == <<Min2(a[1], b[1]), Min2(a[2], b[2]), Min2(a[3], b[3])>>
VMax(a, b) == <<Max2(a[1], b[1]), Max2(a[2], b[2]), Max2(a[3], b[3])>>
Abs(x) == IF x < 0 THEN -x ELSE x

----------------------------------------------------------------------------
(* IEEE arithmetic on finite numbers, +-Infinity and NaN *)

Fin(v) == [k |-> "fin", v |-> v]
Infinite(s) == [k |-> "inf", v |-> s]
NaN == [k |-> "nan", v |-> 0]
Sign(v) == IF v > 0 THEN 1 ELSE IF v < 0 THEN -1 ELSE 0

\* a stored coordinate as an extended number
X(v) == IF v >= MAX_VALUE THEN Infinite(1)
        ELSE IF v <= -MAX_VALUE THEN Infinite(-1)
        ELSE Fin(v)

XNeg(a) == IF a.k = "nan" THEN NaN ELSE [k |-> a.k, v |-> -a.v]

XAdd(a, b) ==
    IF a.k = "nan" \/ b.k = "nan" THEN NaN
    ELSE IF a.k = "inf" /\ b.k = "inf" THEN (IF a.v = b.v THEN a ELSE NaN)
    ELSE IF a.k = "inf" THEN a
    ELSE IF b.k = "inf" THEN b
    ELSE Fin(a.v + b.v)

XSub(a, b) == XAdd(a, XNeg(b))

XMul(a, b) ==
    IF a.k = "nan" \/ b.k = "nan" THEN NaN
    ELSE IF a.k = "inf" \/ b.k = "inf"
         THEN (IF Sign(a.v) * Sign(b.v) = 0 THEN NaN ELSE Infinite(Sign(a.v) * Sign(b.v)))
    ELSE Fin(a.v * b.v)

\* x > 0 and x < 0: false for NaN
XGt0(a) == a.k # "nan" /\ a.v > 0
XLt0(a) == a.k # "nan" /\ a.v < 0

----------------------------------------------------------------------------
(* Plane *)

Plane(n, d) == [n |-> n, d |-> d, len2 |-> 1]

fromNormalAndPoint(n, p) == Plane(n, Dot(n, p))

\* vec3.normalize(n, n) divides n by its length, and d is dot(n, p0) of the
\* normalised n
from3Points(p0, p1, p2) ==
    LET v == VSub(p1, p0)
        u == VSub(p2, p0)
        n == Cross(v, u)
    IN  [n |-> n, d |-> Dot(n, p0), len2 |-> Dot(n, n)]

\* n and d divided by the length of the normal
normalize(p) == [n |-> p.n, d |-> p.d, len2 |-> Dot(p.n, p.n)]

\* distanceToPoint(p) * sqrt(len2): an integer of the same sign
distanceToPoint(pl, p) == Dot(pl.n, p) + pl.d

\* 0 < distanceToPoint(p) <= 0.001, the distance being dist / sqrt(len2)
InBand(pl, dist) == 0 < dist /\ dist * dist <= EPSILON * EPSILON * pl.len2

\* a point with rational coordinates num / den, den > 0
Point(v) == [num |-> v, den |-> 1]

\* distanceToPoint(q) * sqrt(len2) * q.den for a rational point q
distanceToRational(pl, q) == Dot(pl.n, q.num) + pl.d * q.den

\* mat3.determinant of the column-major matrix m
determinant(m) ==
    LET a00 == m[1]  a01 == m[2]  a02 == m[3]
        a10 == m[4]  a11 == m[5]  a12 == m[6]
        a20 == m[7]  a21 == m[8]  a22 == m[9]
    IN  a00 * (a22 * a11 - a12 * a21) + a01 * (a12 * a20 - a22 * a10)
          + a02 * (a21 * a10 - a11 * a20)

\* d1 (n2 x n3) + d2 (n3 x n1) + d3 (n1 x n2)
goldmanSum(p1, p2, p3) ==
    VAdd(VAdd(VScale(Cross(p2.n, p3.n), p1.d), VScale(Cross(p3.n, p1.n), p2.d)),
         VScale(Cross(p1.n, p2.n), p3.d))

\* a point num / den with the sign carried by num
Rational(num, den) ==
    IF den < 0 THEN [hit |-> TRUE, num |-> VScale(num, -1), den |-> -den]
    ELSE [hit |-> TRUE, num |-> num, den |-> den]

\* a faulty variant: the sum divided by det without the final vec3.negate
intersectionOf3PlanesNotNegated(p1, p2, p3) ==
    LET det == determinant(<<p1.n[1], p2.n[1], p3.n[1], p1.n[2], p2.n[2], p3.n[2],
                             p1.n[3], p2.n[3], p3.n[3]>>)
    IN  IF det = 0 THEN [hit |-> FALSE, num |-> <<0, 0, 0>>, den |-> 1]
        ELSE Rational(goldmanSum(p1, p2, p3), det)

\* Plane.intersectionOf3Planes(p1, p2, p3): false, or the point
\* -(d1 (n2 x n3) + d2 (n3 x n1) + d3 (n1 x n2)) / det as num / den
intersectionOf3Planes(p1, p2, p3) ==
    LET det == determinant(<<p1.n[1], p2.n[1], p3.n[1], p1.n[2], p2.n[2], p3.n[2],
                             p1.n[3], p2.n[3], p3.n[3]>>)
    IN  IF det = 0 THEN [hit |-> FALSE, num |-> <<0, 0, 0>>, den |-> 1]
        ELSE Rational(VScale(goldmanSum(p1, p2, p3), -1), det)

\* a faulty variant: the middle of the segment
intersectLineMidpoint(pl, p1, p2) ==
    [hit |-> TRUE, num |-> VAdd(VScale(p1.num, p2.den), VScale(p2.num, p1.den)),
     den |-> 2 * p1.den * p2.den]

\* the point p1 + t * V with V the unit vector from p1 to p2 and
\* t = -(L . S) / (L . V): the lengths of V and of the normal cancel, so it is
\* p1 - (dist(p1) / (n . (p2 - p1))) * (p2 - p1); no point when L . V is 0
intersectLine(pl, p1, p2) ==
    LET temp == VSub(VScale(p2.num, p1.den), VScale(p1.num, p2.den))
        denom == Dot(pl.n, temp)
        dist == distanceToRational(pl, p1)
        num == VSub(VScale(p1.num, denom), VScale(temp, dist))
        den == p1.den * denom
    IN  IF denom = 0 THEN [hit |-> FALSE, num |-> <<0, 0, 0>>, den |-> 1]
        ELSE IF den < 0 THEN [hit |-> TRUE, num |-> VScale(num, -1), den |-> -den]
        ELSE [hit |-> TRUE, num |-> num, den |-> den]

\* a faulty variant: no on-plane band
classifyNoBand(pl, v) == IF distanceToRational(pl, v) > 0 THEN 1 ELSE -1

\* the dist stored with a vertex: 0 on the plane, 1 outside, -1 inside
classify(pl, v) ==
    LET dist == distanceToRational(pl, v)
    IN  IF InBand(pl, dist) THEN 0
        ELSE IF dist > 0 THEN 1
        ELSE -1

allOutside(pl, vertices) ==
    \A i \in 1..Len(vertices) : classify(pl, vertices[i]) = 1

RECURSIVE clipFrom(_, _, _, _)
\* the loop over the pairs of the vertex loop, from vertex i on
clipFrom(pl, vertices, i, newVertices) ==
    IF i > Len(vertices) THEN newVertices
    ELSE LET j == IF i < Len(vertices) THEN i + 1 ELSE 1
             ci == classify(pl, vertices[i])
             cj == classify(pl, vertices[j])
             kept == IF ci # 1 THEN Append(newVertices, vertices[i]) ELSE newVertices
             intersection == intersectLine(pl, vertices[i], vertices[j])
             cut == IF ((ci # 1 /\ cj = 1) \/ (ci = 1 /\ cj # 1)) /\ intersection.hit
                    THEN Append(kept, [num |-> intersection.num, den |-> intersection.den])
                    ELSE kept
         IN  clipFrom(pl, vertices, i + 1, cut)

\* the vertices the loop of clipConvexPolygon inserts: for the pair i, j of
\* which exactly one is classified 1, the result of intersectLine if it is
\* not false
insertions(pl, vertices) ==
    {[i |-> i, j |-> IF i < Len(vertices) THEN i + 1 ELSE 1,
      v |-> intersectLine(pl, vertices[i], vertices[IF i < Len(vertices) THEN i + 1 ELSE 1])] :
        i \in {k \in 1..Len(vertices) :
                 LET j == IF k < Len(vertices) THEN k + 1 ELSE 1
                     ci == classify(pl, vertices[k])
                     cj == classify(pl, vertices[j])
                 IN  /\ (ci # 1 /\ cj = 1) \/ (ci = 1 /\ cj # 1)
                     /\ intersectLine(pl, vertices[k], vertices[j]).hit}}

\* clipped is the result false
clipConvexPolygon(pl, vertices) ==
    IF allOutside(pl, vertices)
    THEN [clipped |-> TRUE, vertices |-> << >>]
    ELSE [clipped |-> FALSE, vertices |-> clipFrom(pl, vertices, 1, << >>)]

----------------------------------------------------------------------------
(* AABB *)

AABB(min, max) == [min |-> min, max |-> max]

\* a faulty variant: the empty box as a point at the origin
createEmptyAtOrigin == AABB(<<0, 0, 0>>, <<0, 0, 0>>)

createEmpty ==
    AABB(<<MAX_VALUE, MAX_VALUE, MAX_VALUE>>, <<-MAX_VALUE, -MAX_VALUE, -MAX_VALUE>>)

corners(b) ==
    {<<x, y, z>> : x \in {b.min[1], b.max[1]}, y \in {b.min[2], b.max[2]},
                   z \in {b.min[3], b.max[3]}}

\* a faulty variant: the largest of the two minima as the new minimum
mergeMaxOfMins(a, b) == AABB(VMax(a.min, b.min), VMax(a.max, b.max))

merge(a, b) == AABB(VMin(a.min, b.min), VMax(a.max, b.max))

containsPoint(b, v) ==
    /\ v[1] >= b.min[1] /\ v[1] <= b.max[1]
    /\ v[2] >= b.min[2] /\ v[2] <= b.max[2]
    /\ v[3] >= b.min[3] /\ v[3] <= b.max[3]

\* ray parameters: Number.MIN_VALUE (the smallest double above 0),
\* Number.MAX_VALUE (the largest double) and the quotients num / den, den > 0
Tiny == [k |-> "tiny", num |-> 0, den |-> 1]
Huge == [k |-> "huge", num |-> 0, den |-> 1]
Quot(num, den) ==
    IF den < 0 THEN [k |-> "rat", num |-> -num, den |-> -den]
    ELSE [k |-> "rat", num |-> num, den |-> den]

\* a <= b on ray parameters
TLe(a, b) ==
    CASE a.k = "tiny" -> b.k \in {"tiny", "huge"} \/ (b.k = "rat" /\ b.num > 0)
      [] a.k = "huge" -> b.k = "huge"
      [] OTHER -> CASE b.k = "tiny" -> a.num <= 0
                    [] b.k = "huge" -> TRUE
                    [] OTHER -> a.num * b.den <= b.num * a.den

\* Math.min and Math.max on ray parameters
TMin(a, b) == IF TLe(a, b) THEN a ELSE b
TMax(a, b) == IF TLe(a, b) THEN b ELSE a

\* the slab of axis i: skipped when Math.abs(dir[i]) <= epsilon, which for the
\* whole-number directions used here is dir[i] = 0
slab(b, origin, dir, i, t) ==
    IF dir[i] # 0
    THEN LET t1 == Quot(b.min[i] - origin[i], dir[i])
             t2 == Quot(b.max[i] - origin[i], dir[i])
         IN  [tmin |-> TMax(t.tmin, TMin(t1, t2)), tmax |-> TMin(t.tmax, TMax(t1, t2))]
    ELSE t

\* a faulty variant: the Z slab tested as well
doesRayIntersectXYZ(b, origin, dir) ==
    LET t0 == [tmin |-> Tiny, tmax |-> Huge]
        t == slab(b, origin, dir, 3, slab(b, origin, dir, 2, slab(b, origin, dir, 1, t0)))
    IN  TLe(t.tmin, t.tmax)

\* AABB.doesRayIntersect(origin, dir): tmin starts at Number.MIN_VALUE and
\* tmax at Number.MAX_VALUE, the X and the Y slab are applied, and the result
\* is tmax >= tmin
doesRayIntersect(b, origin, dir) ==
    LET t0 == [tmin |-> Tiny, tmax |-> Huge]
        t == slab(b, origin, dir, 2, slab(b, origin, dir, 1, t0))
    IN  TLe(t.tmin, t.tmax)

\* a faulty variant: the whole diagonal in the place of the half diagonal
planeExtentDiagonal(b, pl) ==
    LET h(i) == XMul(Fin(2), XSub(X(b.max[i]), X(b.min[i])))
        t(i) == XMul(h(i), Fin(Abs(pl.n[i])))
    IN  XAdd(XAdd(t(1), t(2)), t(3))

\* e and s of planeIntersect, both times 2 * sqrt(len2): c is (max + min) * 0.5
\* and h is (max - min) * 0.5, and only the signs of s - e and s + e are used
planeExtent(b, pl) ==
    LET h(i) == XSub(X(b.max[i]), X(b.min[i]))
        t(i) == XMul(h(i), Fin(Abs(pl.n[i])))
    IN  XAdd(XAdd(t(1), t(2)), t(3))

planeCentre(b, pl) ==
    LET c(i) == XAdd(X(b.max[i]), X(b.min[i]))
        t(i) == XMul(c(i), Fin(pl.n[i]))
    IN  XAdd(XAdd(XAdd(t(1), t(2)), t(3)), Fin(2 * pl.d))

\* a faulty variant: the extent taken with the wrong sign
planeIntersectFlipped(b, pl) ==
    LET e == planeExtent(b, pl)
        s == planeCentre(b, pl)
    IN  IF XGt0(XAdd(s, e)) THEN "OUTSIDE"
        ELSE IF XLt0(XSub(s, e)) THEN "INSIDE"
        ELSE "INTERSECTING"

planeIntersect(b, pl) ==
    LET e == planeExtent(b, pl)
        s == planeCentre(b, pl)
    IN  IF XGt0(XSub(s, e)) THEN "OUTSIDE"
        ELSE IF XLt0(XAdd(s, e)) THEN "INSIDE"
        ELSE "INTERSECTING"

----------------------------------------------------------------------------
(* Frustum *)

\* the constructor: the six planes in order, each normalised
Frustum(left, right, bottom, top, near, far) ==
    [planes |-> <<normalize(left), normalize(right), normalize(bottom),
                  normalize(top), normalize(near), normalize(far)>>]

\* Frustum.isTriangleOutside(v1, v2, v3): some plane has the three points at
\* a distance > 0
isTriangleOutside(f, v1, v2, v3) ==
    \E i \in 1..Len(f.planes) :
        /\ distanceToPoint(f.planes[i], v1) > 0
        /\ distanceToPoint(f.planes[i], v2) > 0
        /\ distanceToPoint(f.planes[i], v3) > 0

\* a faulty variant: a vertex on the plane counted as inside
areVerticesOutsideStrict(f, vertices) ==
    \E i \in 1..Len(f.planes) :
        ~\E k \in 1..Len(vertices) : distanceToPoint(f.planes[i], vertices[k]) <= 0

\* Frustum.areVerticesOutside(vertices): some plane has no vertex at a
\* distance < 0
areVerticesOutside(f, vertices) ==
    \E i \in 1..Len(f.planes) :
        ~\E k \in 1..Len(vertices) : distanceToPoint(f.planes[i], vertices[k]) < 0

RECURSIVE aabbIntersectFrom(_, _, _, _)
\* the loop of aabbIntersect from plane i on
aabbIntersectFrom(f, b, i, intersecting) ==
    IF i > Len(f.planes)
    THEN (IF intersecting THEN "INTERSECTING" ELSE "INSIDE")
    ELSE LET result == planeIntersect(b, f.planes[i])
         IN  IF result = "OUTSIDE" THEN "OUTSIDE"
             ELSE aabbIntersectFrom(f, b, i + 1, intersecting \/ result = "INTERSECTING")

aabbIntersect(f, b) == aabbIntersectFrom(f, b, 1, FALSE)

\* a mat4 is the sequence of its 16 entries, column after column: entry
\* m[4 * c + r] of the code is m[4 * c + r + 1] here

\* the columns of the matrix
getMatrixCols(m) ==
    [i \in 1..4 |-> <<m[4 * (i - 1) + 1], m[4 * (i - 1) + 2], m[4 * (i - 1) + 3], m[4 * (i - 1) + 4]>>]

getMatrixRows(m) == [i \in 1..4 |-> <<m[i], m[4 + i], m[8 + i], m[12 + i]>>]

V4Add(a, b) == <<a[1] + b[1], a[2] + b[2], a[3] + b[3], a[4] + b[4]>>
V4Sub(a, b) == <<a[1] - b[1], a[2] - b[2], a[3] - b[3], a[4] - b[4]>>
V4Negate(a) == <<-a[1], -a[2], -a[3], -a[4]>>
PlaneOfVec4(temp) == Plane(<<temp[1], temp[2], temp[3]>>, temp[4])

fromViewProjectionMatrix(m) ==
    LET rows == getMatrixRows(m)
        left == PlaneOfVec4(V4Negate(V4Add(rows[4], rows[1])))
        right == PlaneOfVec4(V4Negate(V4Sub(rows[4], rows[1])))
        bottom == PlaneOfVec4(V4Negate(V4Add(rows[4], rows[2])))
        top == PlaneOfVec4(V4Negate(V4Sub(rows[4], rows[2])))
        near == PlaneOfVec4(V4Negate(V4Add(rows[4], rows[3])))
        far == PlaneOfVec4(V4Negate(V4Sub(rows[4], rows[3])))
    IN  Frustum(left, right, bottom, top, near, far)

\* gl-matrix vec4.transformMat4 of (p, 1): the clip coordinates of p
transformMat4(m, p) ==
    <<m[1] * p[1] + m[5] * p[2] + m[9] * p[3] + m[13],
      m[2] * p[1] + m[6] * p[2] + m[10] * p[3] + m[14],
      m[3] * p[1] + m[7] * p[2] + m[11] * p[3] + m[15],
      m[4] * p[1] + m[8] * p[2] + m[12] * p[3] + m[16]>>

----------------------------------------------------------------------------
(* The hierarchy: TreeNode and MeshInstance *)

Nodes == 1..MaxNodes

\* MeshData.vertices of the meshes an instance can hold: a box in the positive
\* octant, a segment in the negative octant, a group without faces
Meshes ==
    <<  <<  <<0, 0, 0>>, <<1, 1, 1>>  >>,
        <<  <<-1, -1, -1>>, <<-2, -1, -1>>  >>,
        << >>  >>

Positions == {<<0, 0, 0>>, <<4, 0, 0>>}
\* loadModel: vec3.fromValues(m.scale, m.scale, m.scale)
Scales == {<<1, 1, 1>>, <<2, 2, 2>>}

Free == [kind |-> "free", children |-> << >>, aabb |-> createEmpty,
         position |-> <<0, 0, 0>>, scale |-> <<1, 1, 1>>, mesh |-> 0]

\* new TreeNode() / new ObjModelNode()
TreeNode(kind) == [Free EXCEPT !.kind = kind]

\* new MeshInstance(data, material, shader): identity transform
MeshInstance(mesh) == [Free EXCEPT !.kind = "MeshInstance", !.mesh = mesh]

IsLeaf(nd, n) == nd[n].kind = "MeshInstance"
IsInterior(nd, n) == nd[n].kind \in {"TreeNode", "ObjModelNode"}

\* vec3.transformMat4 by fromRotationTranslationScale(rotation, position, scale),
\* the rotation being the identity quaternion of the constructor
transform(v, position, scale) == VAdd(VMul(v, scale), position)

RECURSIVE leafBoundsFrom(_, _, _, _, _)
\* the vertex loop of MeshInstance.updateBounds from vertex i on
leafBoundsFrom(verts, i, position, scale, box) ==
    IF i > Len(verts) THEN box
    ELSE LET temp == transform(verts[i], position, scale)
         IN  leafBoundsFrom(verts, i + 1, position, scale,
                            AABB(VMin(box.min, temp), VMax(box.max, temp)))

\* MeshInstance.updateBounds: the new aabb of leaf record l
leafBounds(l) ==
    leafBoundsFrom(Meshes[l.mesh], 1, l.position, l.scale,
                   AABB(<<MAX_VALUE, MAX_VALUE, MAX_VALUE>>,
                        <<MIN_VALUE, MIN_VALUE, MIN_VALUE>>))

RECURSIVE updateBounds(_, _)
RECURSIVE updateBoundsFrom(_, _, _)
\* the child loop of TreeNode.updateBounds from child i on
updateBoundsFrom(nd, n, i) ==
    IF i > Len(nd[n].children) THEN nd
    ELSE LET child == nd[n].children[i]
             nd1 == updateBounds(nd, child)
         IN  updateBoundsFrom(
                 [nd1 EXCEPT ![n].aabb = merge(nd1[n].aabb, nd1[child].aabb)], n, i + 1)

\* n.updateBounds(): the hierarchy after it
updateBounds(nd, n) ==
    IF IsLeaf(nd, n) THEN [nd EXCEPT ![n].aabb = leafBounds(nd[n])]
    ELSE updateBoundsFrom(nd, n, 1)

RECURSIVE appendVisibleSet(_, _, _, _, _)
RECURSIVE appendChildrenFrom(_, _, _, _, _, _)
\* the child loop of TreeNode.appendVisibleSet from child i on
appendChildrenFrom(nd, n, i, frustum, drawAll, out) ==
    IF i > Len(nd[n].children) THEN out
    ELSE appendChildrenFrom(nd, n, i + 1, frustum, drawAll,
             appendVisibleSet(nd, nd[n].children[i], frustum, drawAll, out))

\* a faulty variant: a subtree classified OUTSIDE is walked all the same
treeAppendVisibleSetNoCull(nd, n, frustum, drawAll, out) ==
    appendChildrenFrom(nd, n, 1, frustum,
                       drawAll \/ aabbIntersect(frustum, nd[n].aabb) = "INSIDE", out)

\* TreeNode.appendVisibleSet: the list after it
treeAppendVisibleSet(nd, n, frustum, drawAll, out) ==
    IF drawAll THEN appendChildrenFrom(nd, n, 1, frustum, TRUE, out)
    ELSE LET intersect == aabbIntersect(frustum, nd[n].aabb)
         IN  IF intersect = "INSIDE" THEN appendChildrenFrom(nd, n, 1, frustum, TRUE, out)
             ELSE IF intersect = "OUTSIDE" THEN out
             ELSE appendChildrenFrom(nd, n, 1, frustum, FALSE, out)

\* a faulty variant: the leaf appends itself without looking at its aabb
leafAppendAlways(nd, n, frustum, drawAll, out) == Append(out, n)

\* MeshInstance.appendVisibleSet: the list after it
leafAppendVisibleSet(nd, n, frustum, drawAll, out) ==
    IF drawAll THEN Append(out, n)
    ELSE LET intersect == aabbIntersect(frustum, nd[n].aabb)
         IN  IF intersect = "OUTSIDE" THEN out ELSE Append(out, n)

\* n.appendVisibleSet(frustum, drawAll, visibleSet), by the class of n
appendVisibleSet(nd, n, frustum, drawAll, out) ==
    IF IsLeaf(nd, n) THEN leafAppendVisibleSet(nd, n, frustum, drawAll, out)
    ELSE treeAppendVisibleSet(nd, n, frustum, drawAll, out)

----------------------------------------------------------------------------
(* Reading the hierarchy *)

RECURSIVE Below(_, _)
\* n and every node below it
Below(nd, n) ==
    {n} \cup UNION {Below(nd, nd[n].children[i]) : i \in 1..Len(nd[n].children)}

LeavesBelow(nd, n) == {l \in Below(nd, n) : IsLeaf(nd, l)}

RECURSIVE Ancestors(_, _, _)
\* the nodes on the way from root r down to n, r included and n not
Ancestors(nd, r, n) ==
    IF r = n THEN {}
    ELSE LET via == {i \in 1..Len(nd[r].children) : n \in Below(nd, nd[r].children[i])}
         IN  IF via = {} THEN {}
             ELSE {r} \cup Ancestors(nd, nd[r].children[CHOOSE i \in via : TRUE], n)

RECURSIVE MergeAll(_, _, _)
\* the merge of the aabbs of the nodes seq[i..], from the empty box
MergeAll(nd, seq, i) ==
    IF i > Len(seq) THEN createEmpty
    ELSE merge(nd[seq[i]].aabb, MergeAll(nd, seq, i + 1))

RECURSIVE MergeSet(_, _)
MergeSet(nd, set) ==
    IF set = {} THEN createEmpty
    ELSE LET l == CHOOSE l \in set : TRUE
         IN  merge(nd[l].aabb, MergeSet(nd, set \ {l}))

HasFree(nd) == \E n \in DOMAIN nd : nd[n].kind = "free"
\* the id the next constructed node gets: the lowest one not in use
NextFree(nd) ==
    CHOOSE n \in DOMAIN nd :
        nd[n].kind = "free" /\ \A m \in DOMAIN nd : nd[m].kind = "free" => n <= m

----------------------------------------------------------------------------
(* States shared by the specifications *)

NoCall == [node |-> 0, frustum |-> 0, drawAll |-> FALSE]
Idle == [op |-> "idle"]

InitNode == [n \in Nodes |-> IF n = 1 THEN TreeNode("TreeNode") ELSE Free]

\* the enums and tables of rasterize.ts
Color == 0
Ambient == 1
Position == 2
Depth == 3
Normals == 4
DisplaySSAO == 5
SSAOBlurred == 6
Combined == 7
bufferCount == 8
SSAO == 0
SSAOPlus == 1
HBAO == 2
UnsharpenMask == 3
ssaoTechniqueCount == 4
sampleCounts == <<8, 16, 32, 64, 128, 256, 512, 1024>>

\* the mode switches as the module initialises them; sampleCountIndex counts
\* from 0 as in the code
InitSettings ==
    [aoEnabled |-> TRUE, mixAll |-> FALSE, currentTechnique |-> SSAO,
     currentBuffer |-> Combined, sampleCountIndex |-> 1]

\* an AO program: the count compiled into its fragment shader, the number of
\* sample vectors of its kernel and the path that generated them
NoProgram == [numSamples |-> 0, vectors |-> 0, path |-> "none"]

\* nothing requested yet: main has not run
NoShaders ==
    [main |-> "idle", request |-> "pending", updates |-> << >>, failed |-> {},
     ssao |-> NoProgram, ssaoPlus |-> NoProgram, hbao |-> NoProgram,
     default |-> "undefined", normalMap |-> "undefined"]

\* TextureData before any fromFile: textureCache is empty, no promise has been
\* created, nothing has been returned
NoTextures ==
    [cache |-> << >>, promises |-> << >>, returned |-> {},
     last |-> [file |-> 0, promise |-> 0, hit |-> FALSE]]

\* a screenQuad.draw of program into target, sampling the textures in reads
Pass(program, target, reads) == [program |-> program, target |-> target, reads |-> reads]

\* a faulty variant: the depth-aware blur after every technique
aoPassesAlwaysBlur(s) ==
    IF s.aoEnabled \/ s.currentBuffer # Combined
    THEN (CASE s.currentTechnique = SSAO ->
                  <<Pass("ssao", "offscreen0", {"position"})>>
            [] s.currentTechnique = SSAOPlus ->
                  <<Pass("ssaoPlus", "offscreen0", {"position", "normal"})>>
            [] s.currentTechnique = HBAO ->
                  <<Pass("hbao", "offscreen0", {"position", "normal"})>>
            [] s.currentTechnique = UnsharpenMask ->
                  <<Pass("screenDepth", "offscreen0", {"position"}),
                    Pass("gausVert", "offscreen1", {"offscreen0"}),
                    Pass("gausHoriz", "offscreen0", {"offscreen1"})>>)
         \o <<Pass("ssaoBlur", "offscreen1", {"offscreen0", "position"})>>
    ELSE <<Pass("clearWhite", "offscreen1", {})>>

\* a faulty variant: the AO toggle is not consulted
aoPassesIgnoreToggle(s) ==
    (CASE s.currentTechnique = SSAO ->
             <<Pass("ssao", "offscreen0", {"position"})>>
       [] s.currentTechnique = SSAOPlus ->
             <<Pass("ssaoPlus", "offscreen0", {"position", "normal"})>>
       [] s.currentTechnique = HBAO ->
             <<Pass("hbao", "offscreen0", {"position", "normal"})>>
       [] s.currentTechnique = UnsharpenMask ->
             <<Pass("screenDepth", "offscreen0", {"position"}),
               Pass("gausVert", "offscreen1", {"offscreen0"}),
               Pass("gausHoriz", "offscreen0", {"offscreen1"})>>)
    \o (IF s.currentTechnique = UnsharpenMask
        THEN <<Pass("unsharpenMask", "offscreen1", {"offscreen0", "position"})>>
        ELSE <<Pass("ssaoBlur", "offscreen1", {"offscreen0", "position"})>>)

\* a faulty variant: buffer 1 is not cleared when no AO pass runs
aoPassesNoClear(s) ==
    IF s.aoEnabled \/ s.currentBuffer # Combined
    THEN (CASE s.currentTechnique = SSAO ->
                  <<Pass("ssao", "offscreen0", {"position"})>>
            [] s.currentTechnique = SSAOPlus ->
                  <<Pass("ssaoPlus", "offscreen0", {"position", "normal"})>>
            [] s.currentTechnique = HBAO ->
                  <<Pass("hbao", "offscreen0", {"position", "normal"})>>
            [] s.currentTechnique = UnsharpenMask ->
                  <<Pass("screenDepth", "offscreen0", {"position"}),
                    Pass("gausVert", "offscreen1", {"offscreen0"}),
                    Pass("gausHoriz", "offscreen0", {"offscreen1"})>>)
         \o (IF s.currentTechnique = UnsharpenMask
             THEN <<Pass("unsharpenMask", "offscreen1", {"offscreen0", "position"})>>
             ELSE <<Pass("ssaoBlur", "offscreen1", {"offscreen0", "position"})>>)
    ELSE << >>

\* the AO part of renderModels
aoPasses(s) ==
    IF s.aoEnabled \/ s.currentBuffer # Combined
    THEN (CASE s.currentTechnique = SSAO ->
                  <<Pass("ssao", "offscreen0", {"position"})>>
            [] s.currentTechnique = SSAOPlus ->
                  <<Pass("ssaoPlus", "offscreen0", {"position", "normal"})>>
            [] s.currentTechnique = HBAO ->
                  <<Pass("hbao", "offscreen0", {"position", "normal"})>>
            [] s.currentTechnique = UnsharpenMask ->
                  <<Pass("screenDepth", "offscreen0", {"position"}),
                    Pass("gausVert", "offscreen1", {"offscreen0"}),
                    Pass("gausHoriz", "offscreen0", {"offscreen1"})>>)
         \o (IF s.currentTechnique = UnsharpenMask
             THEN <<Pass("unsharpenMask", "offscreen1", {"offscreen0", "position"})>>
             ELSE <<Pass("ssaoBlur", "offscreen1", {"offscreen0", "position"})>>)
    ELSE <<Pass("clearWhite", "offscreen1", {})>>

\* the final draw of renderModels to the screen
outputPass(s) ==
    CASE s.currentBuffer = Color -> Pass("screenColor", "screen", {"color"})
      [] s.currentBuffer = Ambient -> Pass("screenColor", "screen", {"ambient"})
      [] s.currentBuffer = Position -> Pass("screenColor", "screen", {"position"})
      [] s.currentBuffer = Depth -> Pass("screenDepth", "screen", {"position"})
      [] s.currentBuffer = Normals -> Pass("screenNormals", "screen", {"normal"})
      [] s.currentBuffer = DisplaySSAO -> Pass("screenColor", "screen", {"offscreen0"})
      [] s.currentBuffer = SSAOBlurred -> Pass("screenColor", "screen", {"offscreen1"})
      [] s.currentBuffer = Combined ->
            IF s.mixAll
            THEN Pass("ssaoMixAll", "screen", {"color", "offscreen1", "ambient"})
            ELSE Pass("ssaoMix", "screen", {"color", "offscreen1", "ambient"})

\* a faulty variant: the instances drawn after the AO passes
renderPassesAoFirst(s) ==
    aoPasses(s) \o <<Pass("geometry", "mrt", {})>> \o <<outputPass(s)>>

\* the passes of one renderModels call: the instances drawn into the four
\* textures of mrtFB, the AO passes and the output
renderPasses(s) ==
    <<Pass("geometry", "mrt", {})>> \o aoPasses(s) \o <<outputPass(s)>>

\* the number of vectors genCubeCornerVectors pushes: 8 for every i from 0
\* with i < numSamples / 8
genCubeCornerVectors(numSamples) ==
    IF numSamples <= 0 THEN 0 ELSE 8 * ((numSamples + 7) \div 8)

\* the number of vectors genRandomVectors pushes
genRandomVectors(numSamples) == IF numSamples <= 0 THEN 0 ELSE numSamples

\* a faulty variant: the cube corners for every multiple of 8
SSAOShaderProgramCubeForMultiples(numSamples) ==
    IF numSamples % 8 = 0
    THEN [numSamples |-> numSamples, vectors |-> genCubeCornerVectors(numSamples),
          path |-> "cube"]
    ELSE [numSamples |-> numSamples, vectors |-> genRandomVectors(numSamples),
          path |-> "random"]

\* new SSAOShaderProgram(source, numSamples)
SSAOShaderProgram(numSamples) ==
    IF numSamples = 8 \/ numSamples = 16 \/ numSamples = 24 \/ numSamples = 32
    THEN [numSamples |-> numSamples, vectors |-> genCubeCornerVectors(numSamples),
          path |-> "cube"]
    ELSE [numSamples |-> numSamples, vectors |-> genRandomVectors(numSamples),
          path |-> "random"]

\* new SSAOPlusShaderProgram(source, numSamples): the kernel of the base
\* class replaced by genRandomHemisphereVectors(numSamples)
SSAOPlusShaderProgram(numSamples) ==
    [SSAOShaderProgram(numSamples) EXCEPT
        !.vectors = IF numSamples <= 0 THEN 0 ELSE numSamples, !.path = "hemisphere"]

\* a faulty variant: the square root rounded to the nearest integer
roundSqrt(n) == CHOOSE r \in 0..n : (2 * r - 1) * (2 * r - 1) <= 4 * n /\ 4 * n < (2 * r + 1) * (2 * r + 1)

\* Math.floor(Math.sqrt(n))
floorSqrt(n) == CHOOSE r \in 0..n : r * r <= n /\ n < (r + 1) * (r + 1)

\* new HBAOShaderProgram(source, numSamples): {num-rays} and
\* {samples-per-ray} of the fragment source are replaced by sqrtSamples, then
\* the constructor of SSAOPlusShaderProgram runs
HBAOShaderProgram(numSamples) ==
    [numSamples |-> numSamples,
     vectors |-> SSAOPlusShaderProgram(numSamples).vectors,
     path |-> SSAOPlusShaderProgram(numSamples).path,
     numRays |-> floorSqrt(numSamples),
     samplesPerRay |-> floorSqrt(numSamples)]

InitRest ==
    /\ settings = InitSettings
    /\ shaders = NoShaders
    /\ passes = << >>
    /\ textures = NoTextures

----------------------------------------------------------------------------
(* SpecBounds: a hierarchy under one root, built and moved by its user, *)
(* and root.updateBounds()                                              *)

InitBounds ==
    /\ node = InitNode
    /\ pending = << >>
    /\ displayCharacters = TRUE
    /\ lastOp = "init"
    /\ lastCall = NoCall
    /\ visibleSet = << >>
    /\ call = Idle
    /\ InitRest

\* parent.children.push(new TreeNode())
InsertTreeNode(parent) ==
    /\ IsInterior(node, parent)
    /\ HasFree(node)
    /\ node' = [node EXCEPT ![NextFree(node)] = TreeNode("TreeNode"),
                            ![parent].children = Append(@, NextFree(node))]
    /\ lastOp' = "insert"
    /\ UNCHANGED <<pending, displayCharacters, lastCall, visibleSet, call, settings, shaders, passes, textures>>

\* parent.children.push(instance) of a new MeshInstance placed at position, scale
InsertMeshInstance(parent, mesh, position, scale) ==
    /\ IsInterior(node, parent)
    /\ HasFree(node)
    /\ node' = [node EXCEPT ![NextFree(node)] =
                                [MeshInstance(mesh) EXCEPT !.position = position,
                                                           !.scale = scale],
                            ![parent].children = Append(@, NextFree(node))]
    /\ lastOp' = "insert"
    /\ UNCHANGED <<pending, displayCharacters, lastCall, visibleSet, call, settings, shaders, passes, textures>>

\* instance.position = position; instance.scale = scale
SetTransform(l, position, scale) ==
    /\ IsLeaf(node, l)
    /\ <<position, scale>> # <<node[l].position, node[l].scale>>
    /\ node' = [node EXCEPT ![l].position = position, ![l].scale = scale]
    /\ lastOp' = "transform"
    /\ UNCHANGED <<pending, displayCharacters, lastCall, visibleSet, call, settings, shaders, passes, textures>>

\* root.updateBounds()
UpdateBoundsRoot ==
    /\ node' = updateBounds(node, 1)
    /\ lastOp' = "updateBounds"
    /\ UNCHANGED <<pending, displayCharacters, lastCall, visibleSet, call, settings, shaders, passes, textures>>

NextBounds ==
    \/ \E parent \in Nodes : InsertTreeNode(parent)
    \/ \E parent \in Nodes, mesh \in {1, 2}, position \in Positions, scale \in Scales :
          InsertMeshInstance(parent, mesh, position, scale)
    \/ \E l \in Nodes, position \in Positions, scale \in Scales : SetTransform(l, position, scale)
    \/ UpdateBoundsRoot

SpecBounds == InitBounds /\ [][NextBounds]_vars

\* C1: right after root.updateBounds() every interior node's aabb equals, min
\* and max, the merge of the aabbs of its immediate children
C1_InteriorEqualsMergeOfChildren ==
    lastOp = "updateBounds" =>
        \A n \in Below(node, 1) :
            IsInterior(node, n) => node[n].aabb = MergeAll(node, node[n].children, 1)

----------------------------------------------------------------------------
(* SpecCull: a hierarchy under one root with any aabb on any node, and one *)
(* call of appendVisibleSet on any of its nodes                            *)

\* the cube -2 <= x, y, z <= 2: each plane's positive side is the outside
CullFrustum ==
    Frustum(Plane(<<-1, 0, 0>>, -2), Plane(<<1, 0, 0>>, -2),
            Plane(<<0, -1, 0>>, -2), Plane(<<0, 1, 0>>, -2),
            Plane(<<0, 0, -1>>, -2), Plane(<<0, 0, 1>>, -2))

\* a box inside the cube and one outside it; the empty box a node is
\* constructed with is classified INTERSECTING
CullBoxes == {AABB(<<0, 0, 0>>, <<1, 1, 1>>), AABB(<<4, 0, 0>>, <<5, 1, 1>>)}

\* n.aabb = box
SetAABB(n, box) ==
    /\ node[n].kind # "free"
    /\ node[n].aabb # box
    /\ lastOp # "appendVisibleSet"
    /\ node' = [node EXCEPT ![n].aabb = box]
    /\ lastOp' = "aabb"
    /\ UNCHANGED <<pending, displayCharacters, lastCall, visibleSet, call, settings, shaders, passes, textures>>

\* parent.children.push(...) while the hierarchy is being set up
BuildTree ==
    /\ lastOp # "appendVisibleSet"
    /\ \E parent \in Nodes :
          \/ InsertTreeNode(parent)
          \/ InsertMeshInstance(parent, 1, <<0, 0, 0>>, <<1, 1, 1>>)

\* n.appendVisibleSet(CullFrustum, drawAll, [])
CallAppendVisibleSet(n, drawAll) ==
    /\ node[n].kind # "free"
    /\ lastOp # "appendVisibleSet"
    /\ visibleSet' = appendVisibleSet(node, n, CullFrustum, drawAll, << >>)
    /\ lastCall' = [node |-> n, frustum |-> 1, drawAll |-> drawAll]
    /\ lastOp' = "appendVisibleSet"
    /\ UNCHANGED <<node, pending, displayCharacters, call, settings, shaders, passes, textures>>

NextCull ==
    \/ BuildTree
    \/ \E n \in Nodes, box \in CullBoxes : SetAABB(n, box)
    \/ \E n \in Nodes, drawAll \in BOOLEAN : CallAppendVisibleSet(n, drawAll)

SpecCull == InitBounds /\ [][NextCull]_vars

Classified(n) == aabbIntersect(CullFrustum, node[n].aabb)
RootCall == lastOp = "appendVisibleSet" /\ lastCall.node = 1 /\ ~lastCall.drawAll
Appended == {visibleSet[i] : i \in 1..Len(visibleSet)}

\* C4 as stated: appendVisibleSet(F, false, out) on the root never appends a
\* leaf that has an ancestor whose aabb is classified OUTSIDE
C4_NoLeafBelowOutsideAncestor ==
    RootCall =>
        \A l \in Appended : \A a \in Ancestors(node, 1, l) : Classified(a) # "OUTSIDE"

\* C4 amended: appendVisibleSet(F, false, out) on the root never appends a leaf
\* that has an ancestor classified OUTSIDE, unless a node above that ancestor
\* is classified INSIDE
C4_NoLeafBelowTestedOutsideAncestor ==
    RootCall =>
        \A l \in Appended : \A a \in Ancestors(node, 1, l) :
            Classified(a) = "OUTSIDE" =>
                \E b \in Ancestors(node, 1, a) : Classified(b) = "INSIDE"

\* a root call that culled a leaf below an OUTSIDE node after appending a
\* sibling visited before it
C4_Witness ==
    /\ RootCall
    /\ Len(visibleSet) > 0
    /\ \E l \in LeavesBelow(node, 1) \ Appended :
          /\ \E a \in Ancestors(node, 1, l) :
                /\ Classified(a) = "OUTSIDE"
                /\ \A b \in Ancestors(node, 1, a) : Classified(b) # "INSIDE"
          /\ \E k \in Appended : k < l

LeafCall == lastOp = "appendVisibleSet" /\ IsLeaf(node, lastCall.node)

\* C5 as stated: appendVisibleSet on a leaf appends the leaf exactly once,
\* for either drawAll and whatever the classification of its aabb
C5_LeafAlwaysAppendsItself == LeafCall => visibleSet = <<lastCall.node>>

\* C5 amended: appendVisibleSet on a leaf appends the leaf exactly once, except
\* that with drawAll false and its own aabb classified OUTSIDE it appends nothing
C5_LeafAppendsItselfUnlessCulled ==
    LeafCall =>
        visibleSet = IF ~lastCall.drawAll /\ Classified(lastCall.node) = "OUTSIDE"
                     THEN << >> ELSE <<lastCall.node>>

\* a leaf called with drawAll false whose aabb is OUTSIDE, and nothing appended
C5_Witness ==
    /\ LeafCall
    /\ ~lastCall.drawAll
    /\ Classified(lastCall.node) = "OUTSIDE"
    /\ visibleSet = << >>

----------------------------------------------------------------------------
(* SpecProgram: rasterize.ts from the first frame on.  setupScene has      *)
(* requested every model of the scene; the loads complete between frames.  *)
(* visibleSet is a local of renderModels: it is empty again once the frame *)
(* is over and another event runs.                                         *)

environmentRoot == 1
characterRoot == 2
Models == 1..MaxModels
ProgNodes == 1..(2 + MaxModels * (1 + MaxMeshes))

\* position and scale of a model of scene.json
Placements == {<<(<<0, 0, 0>>), (<<1, 1, 1>>)>>, <<(<<4, 0, 0>>), (<<2, 2, 2>>)>>}

\* the frustums of the frames: the cube -2 <= x, y, z <= 2, and the slab
\* 1 <= x <= 7 cut by the slanted planes y - z <= 3, z - y <= 3, -x - z <= 9
\* and z <= 3
ViewFrustums ==
    <<CullFrustum,
      Frustum(Plane(<<-2, 0, 0>>, 2), Plane(<<1, 0, 0>>, -7),
              Plane(<<0, 1, -1>>, -3), Plane(<<0, -1, 1>>, -3),
              Plane(<<-1, 0, -1>>, -9), Plane(<<0, 0, 1>>, -3))>>

\* the OBJ files of the scene: the mesh of each group, in file order
Files ==
    {[k \in 1..MaxMeshes |-> 2],
     [k \in 1..MaxMeshes |-> ((k + 1) % Len(Meshes)) + 1],
     [k \in 1..MaxMeshes |-> ((k - 1) % Len(Meshes)) + 1]}

\* loadModel: ObjModelNode.create(...) requested for a model under parent
\* the materials of a model before ObjModelNode.create has made them
NoMaterial ==
    [created |-> FALSE, diffuseTexture |-> "null", specularTexture |-> "null",
     normalTexture |-> "null"]

\* new MaterialData(...): the three textures start as the solid-colour
\* defaults, and the fromFile(...).then callbacks replace them later
MaterialData ==
    [created |-> TRUE, diffuseTexture |-> "default", specularTexture |-> "default",
     normalTexture |-> "default"]

\* instanceUsesNormalMap: the material of the groups of mesh 2 has a normal
\* texture
UsesNormalMap(mesh) == mesh = 2

\* a faulty variant: the instance is pushed without updateBounds()
newInstanceNoBounds(p, mesh) ==
    [MeshInstance(mesh) EXCEPT !.position = p.position, !.scale = p.scale]

\* the instance of the processMesh callback: constructed, placed, bounded
newInstance(p, mesh) ==
    LET instance == [MeshInstance(mesh) EXCEPT !.position = p.position, !.scale = p.scale]
    IN  [instance EXCEPT !.aabb = leafBounds(instance)]

Requested(parent, placement, file) ==
    [state |-> "fetching", promise |-> "pending", node |-> 0, parent |-> parent,
     file |-> file, position |-> placement[1], scale |-> placement[2], meshes |-> 0,
     material |-> NoMaterial, instances |-> << >>]

InitProgram ==
    /\ node = [n \in ProgNodes |-> IF n \in {environmentRoot, characterRoot}
                                   THEN TreeNode("TreeNode") ELSE Free]
    /\ pending \in [Models -> {Requested(parent, placement, file) :
                                  parent \in {environmentRoot, characterRoot},
                                  placement \in Placements, file \in Files}]
    /\ displayCharacters = TRUE
    /\ lastOp = "init"
    /\ lastCall = NoCall
    /\ visibleSet = << >>
    /\ call = Idle
    /\ settings = InitSettings
    /\ shaders = [NoShaders EXCEPT !.main = "running", !.request = "resolved",
                                   !.default = "defaultShaderProgram",
                                   !.normalMap = "normalMapShaderProgram"]
    /\ passes = << >>
    /\ textures = NoTextures

\* the ids of the node of model m and of the instance of its k-th group
ModelNode(m) == 2 + (m - 1) * (1 + MaxMeshes) + 1
MeshNode(m, k) == ModelNode(m) + k

\* ObjModelNode.create resolves with the new node, and loadModel's callback
\* pushes it to the parent's children
LoadComplete(m) ==
    /\ pending[m].state = "fetching"
    /\ node' = [node EXCEPT ![ModelNode(m)] = TreeNode("ObjModelNode"),
                            ![pending[m].parent].children = Append(@, ModelNode(m))]
    /\ pending' = [pending EXCEPT ![m].state = "loaded", ![m].promise = "resolved",
                                  ![m].node = ModelNode(m), ![m].material = MaterialData]
    /\ lastOp' = "event"
    /\ lastCall' = NoCall
    /\ visibleSet' = << >>
    /\ passes' = << >>
    /\ UNCHANGED <<displayCharacters, call, settings, shaders, textures>>

\* processMesh resolves for the next group of the OBJ file: the instance is
\* created, placed, bounded and pushed to the model node's children
MeshComplete(m) ==
    /\ pending[m].state = "loaded"
    /\ pending[m].meshes < MaxMeshes
    /\ LET mesh == pending[m].file[pending[m].meshes + 1]
           n == MeshNode(m, pending[m].meshes + 1)
           shader == IF UsesNormalMap(mesh) THEN shaders.normalMap ELSE shaders.default
       IN  /\ node' = [node EXCEPT ![n] = newInstance(pending[m], mesh),
                                   ![pending[m].node].children = Append(@, n)]
           /\ pending' = [pending EXCEPT
                  ![m].meshes = @ + 1,
                  ![m].instances = Append(@, [node |-> n, shader |-> shader])]
    /\ lastOp' = "event"
    /\ lastCall' = NoCall
    /\ visibleSet' = << >>
    /\ passes' = << >>
    /\ UNCHANGED <<displayCharacters, call, settings, shaders, textures>>

\* handleKeyDown, KeyC
KeyC ==
    /\ displayCharacters' = ~displayCharacters
    /\ lastOp' = "event"
    /\ lastCall' = NoCall
    /\ visibleSet' = << >>
    /\ passes' = << >>
    /\ UNCHANGED <<node, pending, call, settings, shaders, textures>>

\* renderModels: the visible set of the frame, for view frustum f
Frame(f) ==
    /\ LET env == appendVisibleSet(node, environmentRoot, ViewFrustums[f], FALSE, << >>)
       IN  visibleSet' = IF displayCharacters
                         THEN appendVisibleSet(node, characterRoot, ViewFrustums[f], FALSE, env)
                         ELSE env
    /\ lastCall' = [node |-> environmentRoot, frustum |-> f, drawAll |-> FALSE]
    /\ passes' = renderPasses(settings)
    /\ lastOp' = "frame"
    /\ UNCHANGED <<node, pending, displayCharacters, call, settings, shaders, textures>>

NextProgram ==
    \/ \E m \in Models : LoadComplete(m)
    \/ \E m \in Models : MeshComplete(m)
    \/ KeyC
    \/ \E f \in 1..Len(ViewFrustums) : Frame(f)

SpecProgram == InitProgram /\ [][NextProgram]_vars

\* C2: at the start of a frame (a frame can start in every state) every
\* non-leaf node has bounds equal to the merge of the bounds of all leaves
\* below it
C2_InteriorEqualsMergeOfLeaves ==
    \A n \in DOMAIN node :
        IsInterior(node, n) => node[n].aabb = MergeSet(node, LeavesBelow(node, n))

\* the exact world-space bounds of leaf record l: componentwise min and max of
\* its transformed vertices
ExactBounds(l) ==
    LET pts == {transform(Meshes[l.mesh][i], l.position, l.scale) :
                    i \in 1..Len(Meshes[l.mesh])}
        lo(c) == CHOOSE x \in {q[c] : q \in pts} : \A q \in pts : x <= q[c]
        hi(c) == CHOOSE x \in {q[c] : q \in pts} : \A q \in pts : x >= q[c]
    IN  AABB(<<lo(1), lo(2), lo(3)>>, <<hi(1), hi(2), hi(3)>>)

\* box b is not wholly on the positive side of any plane of f: every box that
\* meets the frustum is such a box
MayMeet(f, b) ==
    \A i \in 1..Len(f.planes) : \E q \in corners(b) : distanceToPoint(f.planes[i], q) <= 0

FrameRoots == IF displayCharacters THEN {environmentRoot, characterRoot} ELSE {environmentRoot}

\* C3: after a frame's appendVisibleSet(F, false, out) on a root, every leaf
\* below that root whose exact world-space bounds are not wholly outside one
\* plane of F (so every leaf whose exact bounds meet F) is in the visible set
C3_NoVisibleLeafCulled ==
    lastOp = "frame" =>
        \A r \in FrameRoots : \A l \in LeavesBelow(node, r) :
            (Meshes[node[l].mesh] # << >>
             /\ MayMeet(ViewFrustums[lastCall.frustum], ExactBounds(node[l])))
                => l \in Appended

\* a frame that appended a leaf whose exact bounds meet the frustum and whose
\* aabb is larger than them, and culled another leaf
C3_Witness ==
    /\ lastOp = "frame"
    /\ \E l \in LeavesBelow(node, environmentRoot) :
          /\ Meshes[node[l].mesh] # << >>
          /\ MayMeet(ViewFrustums[lastCall.frustum], ExactBounds(node[l]))
          /\ node[l].aabb # ExactBounds(node[l])
          /\ l \in Appended
    /\ \E l \in LeavesBelow(node, environmentRoot) : l \notin Appended

----------------------------------------------------------------------------
(* SpecGeom: one call of a function of Plane, AABB or Frustum on inputs    *)
(* from small sets                                                         *)

\* the cube -2 <= x, y, z <= 2 with normals of length 2, the slab of
\* ViewFrustums, and the octahedron slice |x + y + z| <= 3 inside a cube
GeomFrustums ==
    <<CullFrustum,
      Frustum(Plane(<<-2, 0, 0>>, -4), Plane(<<2, 0, 0>>, -4),
              Plane(<<0, -2, 0>>, -4), Plane(<<0, 2, 0>>, -4),
              Plane(<<0, 0, -2>>, -4), Plane(<<0, 0, 2>>, -4)),
      ViewFrustums[2],
      Frustum(Plane(<<1, 1, 1>>, -3), Plane(<<-1, -1, -1>>, -3),
              Plane(<<0, -1, 0>>, -9), Plane(<<0, 1, 0>>, -9),
              Plane(<<0, 0, -1>>, -9), Plane(<<0, 0, 1>>, -9))>>

GeomRange == {-3, -1, 1, 3}

\* boxes with min <= max, the bounds of a MeshInstance without vertices, and
\* the empty box
GeomBoxes ==
    {AABB(<<x[1], y[1], z[1]>>, <<x[2], y[2], z[2]>>) :
        x \in {r \in GeomRange \X GeomRange : r[1] <= r[2]},
        y \in {<<-1, 1>>, <<2, 3>>, <<-3, -2>>},
        z \in {<<0, 0>>, <<-1, 2>>}}
    \cup {leafBounds(MeshInstance(3)), createEmpty}

GeomNormals == {<<1, 0, 0>>, <<0, -2, 0>>, <<1, 1, 0>>, <<1, -2, 2>>}
GeomPoints == {<<0, 0, 0>>, <<1, 0, 0>>, <<0, 1, 0>>, <<2, 2, 0>>, <<1, 1, 1>>}

\* clipping planes: x <= 0, the normalised 2x <= 2, and x + y <= 2 with a
\* normal that is not of length one
ClipPlanes ==
    {Plane(<<1, 0, 0>>, 0), normalize(Plane(<<2, 0, 0>>, -2)), Plane(<<1, 1, 0>>, -2)}

\* vertices, in units of 0.001
ClipPoints == {<<-2, 0, 0>>, <<0, 1, 0>>, <<1, 0, 0>>, <<3, 1, 0>>, <<2, 0, 1>>}

RECURSIVE Loops(_)
\* the vertex loops of up to n vertices
Loops(n) ==
    IF n = 0 THEN {<< >>}
    ELSE LET shorter == Loops(n - 1)
         IN  shorter \cup {Append(l, Point(v)) : l \in {k \in shorter : Len(k) = n - 1},
                                                v \in ClipPoints}

InitGeom ==
    /\ node = InitNode
    /\ pending = << >>
    /\ displayCharacters = TRUE
    /\ lastOp = "init"
    /\ lastCall = NoCall
    /\ visibleSet = << >>
    /\ call = Idle
    /\ InitRest

CallAabbIntersect(f, b) ==
    /\ call = Idle
    /\ call' = [op |-> "aabbIntersect", frustum |-> f, aabb |-> b,
                result |-> aabbIntersect(GeomFrustums[f], b)]
    /\ UNCHANGED <<node, pending, displayCharacters, lastOp, lastCall, visibleSet, settings, shaders, passes, textures>>

CallFromNormalAndPoint(n, p) ==
    /\ call = Idle
    /\ call' = [op |-> "fromNormalAndPoint", n |-> n, p |-> p,
                result |-> fromNormalAndPoint(n, p)]
    /\ UNCHANGED <<node, pending, displayCharacters, lastOp, lastCall, visibleSet, settings, shaders, passes, textures>>

CallFrom3Points(p0, p1, p2) ==
    /\ call = Idle
    /\ call' = [op |-> "from3Points", p0 |-> p0, p1 |-> p1, p2 |-> p2,
                result |-> from3Points(p0, p1, p2)]
    /\ UNCHANGED <<node, pending, displayCharacters, lastOp, lastCall, visibleSet, settings, shaders, passes, textures>>

\* view-projection matrices, column after column: the identity (the cube
\* -1 <= x, y, z <= 1), a perspective projection looking down -z (w = -z),
\* the same behind a view translated by (1, 0, -1), and a perspective
\* projection behind a view turned a quarter about y
ViewProjections ==
    <<  <<1, 0, 0, 0,    0, 1, 0, 0,    0, 0, 1, 0,     0, 0, 0, 1>>,
        <<2, 0, 0, 0,    0, 2, 0, 0,    0, 0, -3, -1,   0, 0, -4, 0>>,
        <<2, 0, 0, 0,    0, 2, 0, 0,    0, 0, -3, -1,   2, 0, -1, 1>>,
        <<0, 0, 3, 1,    0, 1, 0, 0,    2, 0, 0, 0,     0, 0, -4, 0>>  >>

ProbePoints == {<<x, y, z>> : x \in {-2, 0, 1}, y \in {-1, 0, 2}, z \in {-3, -1, 0, 2}}

CallFromViewProjectionMatrix(m, p) ==
    /\ call = Idle
    /\ call' = [op |-> "fromViewProjectionMatrix", m |-> m, p |-> p,
                result |-> fromViewProjectionMatrix(ViewProjections[m])]
    /\ UNCHANGED <<node, pending, displayCharacters, lastOp, lastCall, visibleSet, settings, shaders, passes, textures>>

\* kernel sizes: every size up to MaxSamples and the sizes of sampleCounts
KernelSizes == 1..MaxSamples \cup {sampleCounts[i] : i \in 1..Len(sampleCounts)}

CallSSAOShaderProgram(numSamples) ==
    /\ call = Idle
    /\ call' = [op |-> "SSAOShaderProgram", numSamples |-> numSamples,
                result |-> SSAOShaderProgram(numSamples)]
    /\ UNCHANGED <<node, pending, displayCharacters, lastOp, lastCall, visibleSet, settings, shaders, passes, textures>>

\* AABB.merge(a, b): vec3.min and vec3.max write to the two fresh vectors of
\* the new box only, so a and b are after the call what they were before
CallMerge(a, b) ==
    /\ call = Idle
    /\ call' = [op |-> "merge", a |-> a, b |-> b, aAfter |-> a, bAfter |-> b,
                result |-> merge(a, b)]
    /\ UNCHANGED <<node, pending, displayCharacters, lastOp, lastCall, visibleSet, settings, shaders, passes, textures>>

\* planes for intersectionOf3Planes: among the normals are parallel ones and
\* three in one plane
TriplePlanes ==
    {Plane(n, d) : n \in {<<1, 0, 0>>, <<0, 1, 0>>, <<0, 0, 1>>, <<1, 1, 0>>,
                          <<-2, 0, 0>>, <<1, -2, 2>>},
                   d \in {-1, 0, 3}}

CallIntersectionOf3Planes(p1, p2, p3) ==
    /\ call = Idle
    /\ call' = [op |-> "intersectionOf3Planes", p1 |-> p1, p2 |-> p2, p3 |-> p3,
                result |-> intersectionOf3Planes(p1, p2, p3)]
    /\ UNCHANGED <<node, pending, displayCharacters, lastOp, lastCall, visibleSet, settings, shaders, passes, textures>>

CallHBAOShaderProgram(numSamples) ==
    /\ call = Idle
    /\ call' = [op |-> "HBAOShaderProgram", numSamples |-> numSamples,
                result |-> HBAOShaderProgram(numSamples)]
    /\ UNCHANGED <<node, pending, displayCharacters, lastOp, lastCall, visibleSet, settings, shaders, passes, textures>>

CallClipConvexPolygon(pl, vertices) ==
    /\ call = Idle
    /\ call' = [op |-> "clipConvexPolygon", plane |-> pl, vertices |-> vertices,
                result |-> clipConvexPolygon(pl, vertices)]
    /\ UNCHANGED <<node, pending, displayCharacters, lastOp, lastCall, visibleSet, settings, shaders, passes, textures>>

NextGeom ==
    \/ \E f \in 1..Len(GeomFrustums), b \in GeomBoxes : CallAabbIntersect(f, b)
    \/ \E n \in GeomNormals, p \in GeomPoints : CallFromNormalAndPoint(n, p)
    \/ \E p0 \in GeomPoints, p1 \in GeomPoints, p2 \in GeomPoints : CallFrom3Points(p0, p1, p2)
    \/ \E pl \in ClipPlanes, vertices \in Loops(MaxLoop) : CallClipConvexPolygon(pl, vertices)
    \/ \E m \in 1..Len(ViewProjections), p \in ProbePoints : CallFromViewProjectionMatrix(m, p)
    \/ \E numSamples \in KernelSizes : CallSSAOShaderProgram(numSamples)
    \/ \E numSamples \in KernelSizes : CallHBAOShaderProgram(numSamples)
    \/ \E a \in GeomBoxes, b \in GeomBoxes : CallMerge(a, b)
    \/ \E p1 \in TriplePlanes, p2 \in TriplePlanes, p3 \in TriplePlanes :
          CallIntersectionOf3Planes(p1, p2, p3)

SpecGeom == InitGeom /\ [][NextGeom]_vars

\* the signed distance of corner q to plane pl times sqrt(len2), a corner
\* of a box without vertices having infinite coordinates
CornerDistance(pl, q) ==
    XAdd(XAdd(XAdd(XMul(X(q[1]), Fin(pl.n[1])), XMul(X(q[2]), Fin(pl.n[2]))),
              XMul(X(q[3]), Fin(pl.n[3]))),
         Fin(pl.d))

XLe0(a) == a.k # "nan" /\ a.v <= 0

MinLeMax(b) == \A i \in 1..3 : b.min[i] <= b.max[i]

AabbCall == call.op = "aabbIntersect"
CallPlanes == GeomFrustums[call.frustum].planes

AllCornersBeyond(pl, b) == \A q \in corners(b) : XGt0(CornerDistance(pl, q))

\* C6: for a box with min <= max, aabbIntersect is INSIDE when all 8 corners
\* have negative signed distance to all six planes, and OUTSIDE when all 8
\* corners have positive signed distance to at least one plane
C6_EnclosedInsideBeyondOutside ==
    (AabbCall /\ MinLeMax(call.aabb)) =>
        /\ (\A i \in 1..Len(CallPlanes) : \A q \in corners(call.aabb) :
                XLt0(CornerDistance(CallPlanes[i], q))) => call.result = "INSIDE"
        /\ (\E i \in 1..Len(CallPlanes) : AllCornersBeyond(CallPlanes[i], call.aabb))
                => call.result = "OUTSIDE"

\* a box beyond a plane that is not the first and whose normal is not along
\* an axis, reported OUTSIDE
C6_Witness ==
    /\ AabbCall
    /\ MinLeMax(call.aabb)
    /\ call.aabb.min # call.aabb.max
    /\ ~AllCornersBeyond(CallPlanes[1], call.aabb)
    /\ \E i \in 2..Len(CallPlanes) :
          /\ AllCornersBeyond(CallPlanes[i], call.aabb)
          /\ Cardinality({c \in 1..3 : CallPlanes[i].n[c] # 0}) > 1
    /\ call.result = "OUTSIDE"

\* OUTSIDE only with all corners beyond one plane, INSIDE only with no corner
\* beyond any plane, and never OUTSIDE with a corner inside the frustum
NeverIncorrect ==
    /\ call.result = "OUTSIDE" =>
          \E i \in 1..Len(CallPlanes) : AllCornersBeyond(CallPlanes[i], call.aabb)
    /\ call.result = "INSIDE" =>
          \A i \in 1..Len(CallPlanes) : \A q \in corners(call.aabb) :
              XLe0(CornerDistance(CallPlanes[i], q))
    /\ (\E q \in corners(call.aabb) : \A i \in 1..Len(CallPlanes) :
            XLe0(CornerDistance(CallPlanes[i], q))) => call.result # "OUTSIDE"

NonCollinear(p0, p1, p2) == Cross(VSub(p1, p0), VSub(p2, p0)) # <<0, 0, 0>>

\* C8: the point given to fromNormalAndPoint has signed distance 0 to the
\* plane it returns, and each of three non-collinear points given to
\* from3Points has signed distance 0 to the plane it returns
C8_PlaneContainsItsPoints ==
    /\ call.op = "fromNormalAndPoint" => distanceToPoint(call.result, call.p) = 0
    /\ (call.op = "from3Points" /\ NonCollinear(call.p0, call.p1, call.p2)) =>
          \A p \in {call.p0, call.p1, call.p2} : distanceToPoint(call.result, p) = 0

ClipCall == call.op = "clipConvexPolygon"

\* the signed distance of q is above 0.001
BeyondEpsilon(pl, q) ==
    LET dist == distanceToRational(pl, q)
    IN  dist > 0 /\ dist * dist > EPSILON * EPSILON * pl.len2 * q.den * q.den

\* the signed distance of q is below -0.001
BelowMinusEpsilon(pl, q) ==
    LET dist == distanceToRational(pl, q)
    IN  dist < 0 /\ dist * dist > EPSILON * EPSILON * pl.len2 * q.den * q.den

\* C9 as stated: clipConvexPolygon returns "fully clipped" if and only if
\* every input vertex has signed distance > 0
C9_FullyClippedIffAllPositive ==
    ClipCall =>
        (call.result.clipped <=>
            \A i \in 1..Len(call.vertices) :
                distanceToRational(call.plane, call.vertices[i]) > 0)

\* C9 amended: clipConvexPolygon returns "fully clipped" if and only if every
\* input vertex has signed distance > 0.001
C9_FullyClippedIffAllBeyondEpsilon ==
    ClipCall =>
        (call.result.clipped <=>
            \A i \in 1..Len(call.vertices) : BeyondEpsilon(call.plane, call.vertices[i]))

\* a loop with every vertex at positive distance, one of them within 0.001
\* and one beyond, that is not fully clipped
C9_Witness ==
    /\ ClipCall
    /\ \A i \in 1..Len(call.vertices) :
          distanceToRational(call.plane, call.vertices[i]) > 0
    /\ \E i \in 1..Len(call.vertices) : BeyondEpsilon(call.plane, call.vertices[i])
    /\ \E i \in 1..Len(call.vertices) : ~BeyondEpsilon(call.plane, call.vertices[i])
    /\ ~call.result.clipped

\* C10 as stated: every vertex of a returned polygon has signed distance
\* >= -0.001
C10_OutputInPositiveHalfSpace ==
    (ClipCall /\ ~call.result.clipped) =>
        \A i \in 1..Len(call.result.vertices) :
            ~BelowMinusEpsilon(call.plane, call.result.vertices[i])

\* C10 amended: every vertex of a returned polygon has signed distance
\* <= 0.001
C10_OutputNotBeyondEpsilon ==
    (ClipCall /\ ~call.result.clipped) =>
        \A i \in 1..Len(call.result.vertices) :
            ~BeyondEpsilon(call.plane, call.result.vertices[i])

\* a returned polygon with a kept vertex below -0.001, a kept vertex at
\* positive distance within 0.001, and an inserted intersection
C10_Witness ==
    /\ ClipCall
    /\ ~call.result.clipped
    /\ \E i \in 1..Len(call.result.vertices) :
          BelowMinusEpsilon(call.plane, call.result.vertices[i])
    /\ \E i \in 1..Len(call.result.vertices) :
          /\ distanceToRational(call.plane, call.result.vertices[i]) > 0
          /\ ~BeyondEpsilon(call.plane, call.result.vertices[i])
    /\ \E i \in 1..Len(call.result.vertices) :
          \A j \in 1..Len(call.vertices) : call.result.vertices[i] # call.vertices[j]

----------------------------------------------------------------------------
(* MeshInstance.updateBounds, under SpecBounds *)

\* C11: after updateBounds the aabb of every leaf with a non-empty vertex
\* set is exactly the componentwise minimum and maximum of its transformed
\* vertices
C11_LeafBoundsExact ==
    lastOp = "updateBounds" =>
        \A l \in LeavesBelow(node, 1) :
            Meshes[node[l].mesh] # << >> => node[l].aabb = ExactBounds(node[l])

----------------------------------------------------------------------------
(* Frustum.fromViewProjectionMatrix, under SpecGeom *)

ProjectionCall == call.op = "fromViewProjectionMatrix"
Clip == transformMat4(ViewProjections[call.m], call.p)

\* p is outside the bound of plane i: left, right, bottom, top, near, far
OutsideBound(i, c) ==
    CASE i = 1 -> c[1] < -c[4]
      [] i = 2 -> c[1] > c[4]
      [] i = 3 -> c[2] < -c[4]
      [] i = 4 -> c[2] > c[4]
      [] i = 5 -> c[3] < -c[4]
      [] i = 6 -> c[3] > c[4]

\* p is strictly inside the bound of plane i
InsideBound(i, c) ==
    CASE i = 1 -> c[1] > -c[4]
      [] i = 2 -> c[1] < c[4]
      [] i = 3 -> c[2] > -c[4]
      [] i = 4 -> c[2] < c[4]
      [] i = 5 -> c[3] > -c[4]
      [] i = 6 -> c[3] < c[4]

\* C12: each plane of fromViewProjectionMatrix(m) has positive signed
\* distance at p exactly when the clip coordinates of p are outside that
\* plane's bound, and negative signed distance when they are strictly inside
C12_PlaneSignsMatchClipBounds ==
    ProjectionCall =>
        \A i \in 1..6 :
            /\ distanceToPoint(call.result.planes[i], call.p) > 0 <=> OutsideBound(i, Clip)
            /\ InsideBound(i, Clip) => distanceToPoint(call.result.planes[i], call.p) < 0

\* a perspective matrix and a point outside the left bound and the far
\* bound only
C12_Witness ==
    /\ ProjectionCall
    /\ ViewProjections[call.m][12] # 0
    /\ \A i \in 1..6 : OutsideBound(i, Clip) <=> i \in {1, 6}
    /\ distanceToPoint(call.result.planes[1], call.p) > 0
    /\ distanceToPoint(call.result.planes[6], call.p) > 0

----------------------------------------------------------------------------
(* SpecRender: the mode keys and the frames of rasterize.ts on a scene     *)
(* without models                                                          *)

InitRender ==
    /\ node = [n \in ProgNodes |-> IF n \in {environmentRoot, characterRoot}
                                   THEN TreeNode("TreeNode") ELSE Free]
    /\ pending = << >>
    /\ displayCharacters = TRUE
    /\ lastOp = "init"
    /\ lastCall = NoCall
    /\ visibleSet = << >>
    /\ call = Idle
    /\ InitRest

\* a key handled by handleKeyDown that leaves the settings as s
KeyDown(s) ==
    /\ settings' = s
    /\ lastOp' = "event"
    /\ lastCall' = NoCall
    /\ visibleSet' = << >>
    /\ passes' = << >>
    /\ UNCHANGED <<node, pending, displayCharacters, call, shaders, textures>>

KeyA == KeyDown([settings EXCEPT !.aoEnabled = ~@])

KeyM == KeyDown([settings EXCEPT !.mixAll = ~@])

KeyB ==
    KeyDown([settings EXCEPT !.currentBuffer = IF @ + 1 >= bufferCount THEN 0 ELSE @ + 1])

KeyT ==
    KeyDown([settings EXCEPT
                !.currentTechnique = IF @ + 1 >= ssaoTechniqueCount THEN 0 ELSE @ + 1])

NextRender ==
    \/ KeyA
    \/ KeyM
    \/ KeyB
    \/ KeyT
    \/ \E f \in 1..Len(ViewFrustums) : Frame(f)

SpecRender == InitRender /\ [][NextRender]_vars

GeometryBuffers == {"color", "position", "normal", "ambient"}
AfterFrame == lastOp = "frame"
PassesOf(programs) == {i \in 1..Len(passes) : passes[i].program \in programs}
AoRuns == settings.aoEnabled \/ settings.currentBuffer # Combined

\* C14: in every frame the four geometry buffers are written by exactly one
\* pass, and every pass that samples one of them comes after it
C14_OneGeometryPassBeforeReaders ==
    AfterFrame =>
        /\ Cardinality({i \in 1..Len(passes) : passes[i].target = "mrt"}) = 1
        /\ \A i \in 1..Len(passes) :
              passes[i].reads \cap GeometryBuffers # {} =>
                  /\ \E j \in 1..(i - 1) : passes[j].target = "mrt"
                  /\ \A k \in i..Len(passes) : passes[k].target # "mrt"

\* a frame whose AO pass samples position and normal and whose output
\* samples color and ambient
C14_Witness ==
    /\ AfterFrame
    /\ \E i \in 1..Len(passes) :
          passes[i].target = "offscreen0" /\ passes[i].reads = {"position", "normal"}
    /\ passes[Len(passes)].target = "screen"
    /\ {"color", "ambient"} \subseteq passes[Len(passes)].reads

\* the pass at position i is program, from buffer source into buffer target
IsPass(i, program, source, target) ==
    /\ i \in 1..Len(passes)
    /\ passes[i].program = program
    /\ passes[i].target = target
    /\ source = "" \/ source \in passes[i].reads

\* C15: in a frame with AO passes, SSAO, SSAO+ and HBAO run exactly one
\* technique pass into buffer 0 and exactly one depth-aware blur from buffer
\* 0 into buffer 1; Unsharpen-Mask never runs the depth-aware blur and runs
\* depth into 0, Gaussian blur 0 into 1, Gaussian blur 1 into 0 and
\* unsharpen mask 0 into 1
C15_PassesOfEachTechnique ==
    (AfterFrame /\ AoRuns) =>
        IF settings.currentTechnique = UnsharpenMask
        THEN /\ PassesOf({"ssaoBlur", "ssao", "ssaoPlus", "hbao"}) = {}
             /\ IsPass(2, "screenDepth", "position", "offscreen0")
             /\ IsPass(3, "gausVert", "offscreen0", "offscreen1")
             /\ IsPass(4, "gausHoriz", "offscreen1", "offscreen0")
             /\ IsPass(5, "unsharpenMask", "offscreen0", "offscreen1")
             /\ Len(passes) = 6
        ELSE /\ Cardinality(PassesOf({"ssao", "ssaoPlus", "hbao"})) = 1
             /\ \A i \in PassesOf({"ssao", "ssaoPlus", "hbao"}) :
                   /\ passes[i].target = "offscreen0"
                   /\ passes[i].program =
                         (CASE settings.currentTechnique = SSAO -> "ssao"
                            [] settings.currentTechnique = SSAOPlus -> "ssaoPlus"
                            [] settings.currentTechnique = HBAO -> "hbao")
             /\ Cardinality(PassesOf({"ssaoBlur"})) = 1
             /\ \A i \in PassesOf({"ssaoBlur"}) :
                   passes[i].target = "offscreen1" /\ "offscreen0" \in passes[i].reads
             /\ PassesOf({"gausVert", "gausHoriz", "unsharpenMask"}) = {}
             /\ {i \in 1..Len(passes) : passes[i].target \in {"offscreen0", "offscreen1"}}
                    = PassesOf({"ssao", "ssaoPlus", "hbao", "ssaoBlur"})

\* an Unsharpen-Mask frame with AO off, drawn because a buffer is displayed
C15_Witness ==
    /\ AfterFrame
    /\ settings.currentTechnique = UnsharpenMask
    /\ ~settings.aoEnabled
    /\ settings.currentBuffer = SSAOBlurred
    /\ IsPass(5, "unsharpenMask", "offscreen0", "offscreen1")

\* no AO pass writes an offscreen buffer and buffer 1 is cleared to white
FreeOfAo ==
    /\ \A i \in 1..Len(passes) :
          passes[i].target \in {"offscreen0", "offscreen1"} => passes[i].program = "clearWhite"
    /\ \E i \in 1..Len(passes) :
          passes[i].program = "clearWhite" /\ passes[i].target = "offscreen1"

\* C19 as stated: with aoEnabled false every frame runs no AO or blur pass
\* and the occlusion buffer is cleared to 1.0, whichever technique, mix mode
\* and display buffer are selected
C19_AoOffFramesFreeOfAo == (AfterFrame /\ ~settings.aoEnabled) => FreeOfAo

\* C19 amended: the same when the display buffer is Combined
C19_AoOffCombinedFramesFreeOfAo ==
    (AfterFrame /\ ~settings.aoEnabled /\ settings.currentBuffer = Combined) => FreeOfAo

\* a frame with AO off, the Combined display, all-light mixing and a
\* technique other than the first
C19_Witness ==
    /\ AfterFrame
    /\ ~settings.aoEnabled
    /\ settings.currentBuffer = Combined
    /\ settings.mixAll
    /\ settings.currentTechnique = HBAO
    /\ passes[Len(passes)].program = "ssaoMixAll"
    /\ Len(passes) = 3

----------------------------------------------------------------------------
(* SSAOShaderProgram, under SpecGeom *)

KernelCall == call.op = "SSAOShaderProgram"

\* C20 as stated: the cube-corner path is used exactly when the kernel size
\* is a multiple of 8 and the random-sphere path for every other size, and
\* either path generates exactly numSamples vectors
C20_CubePathIffMultipleOf8 ==
    KernelCall =>
        /\ call.result.path = "cube" <=> call.numSamples % 8 = 0
        /\ call.result.path = "random" <=> call.numSamples % 8 # 0
        /\ call.result.vectors = call.numSamples

\* C20 amended: the cube-corner path is used exactly for the kernel sizes 8,
\* 16, 24 and 32 and the random-sphere path for every other size, and either
\* path generates exactly numSamples vectors
C20_CubePathIff8To32 ==
    KernelCall =>
        /\ call.result.path = "cube" <=> call.numSamples \in {8, 16, 24, 32}
        /\ call.result.path = "random" <=> call.numSamples \notin {8, 16, 24, 32}
        /\ call.result.vectors = call.numSamples

\* a multiple of 8 above 32 with a kernel of that many random vectors
C20_Witness ==
    /\ KernelCall
    /\ call.numSamples % 8 = 0
    /\ call.numSamples > 32
    /\ call.result.path = "random"
    /\ call.result.vectors = call.numSamples

----------------------------------------------------------------------------
(* SpecSamples: main waiting for its shader sources with the key handler   *)
(* installed, the presses of S and the arrival of the shader sources they  *)
(* request                                                                 *)

\* a faulty variant: the count selected when the module was initialised
initialCount(s) == sampleCounts[InitSettings.sampleCountIndex + 1]

\* sampleCounts[sampleCountIndex]
selectedCount(s) == sampleCounts[s.sampleCountIndex + 1]

\* the three constructor calls of main and of updateSampleCount
newPrograms(sh, s) ==
    [sh EXCEPT !.ssao = SSAOShaderProgram(selectedCount(s)),
               !.ssaoPlus = SSAOPlusShaderProgram(selectedCount(s)),
               !.hbao = HBAOShaderProgram(selectedCount(s))]

InitSamples ==
    /\ node = InitNode
    /\ pending = << >>
    /\ displayCharacters = TRUE
    /\ lastOp = "init"
    /\ lastCall = NoCall
    /\ visibleSet = << >>
    /\ call = Idle
    /\ settings = InitSettings
    /\ shaders = [NoShaders EXCEPT !.main = "awaitShaders"]
    /\ passes = << >>
    /\ textures = NoTextures

\* handleKeyDown, KeyS: the next count is selected and updateSampleCount
\* requests the three shader sources; an element of updates is the number of
\* sources that have arrived
KeyS ==
    /\ Len(shaders.updates) < MaxUpdates
    /\ settings' = [settings EXCEPT
                       !.sampleCountIndex = IF @ + 1 >= Len(sampleCounts) THEN 0 ELSE @ + 1]
    /\ shaders' = [shaders EXCEPT !.updates = Append(@, 0)]
    /\ lastOp' = "event"
    /\ UNCHANGED <<node, pending, displayCharacters, lastCall, visibleSet, call, passes, textures>>

\* a shader source of request u arrives; with the third, requestShaders
\* resolves and updateSampleCount constructs the three programs
SourceFetched(u) ==
    /\ u \in 1..Len(shaders.updates)
    /\ shaders' =
          IF shaders.updates[u] < 2
          THEN [shaders EXCEPT !.updates[u] = @ + 1]
          ELSE newPrograms(
                   [shaders EXCEPT !.updates =
                       SubSeq(@, 1, u - 1) \o SubSeq(@, u + 1, Len(@))], settings)
    /\ lastOp' = "event"
    /\ UNCHANGED <<node, pending, displayCharacters, lastCall, visibleSet, call, settings, passes, textures>>

\* main is at an await whose promise can still settle
MainCanProceed == shaders.main = "awaitShaders" /\ "shaders" \notin shaders.failed

\* the awaits of main are over: setupScene requests the models, the programs
\* are constructed and renderModels starts the frame loop
MainLoaded ==
    /\ MainCanProceed
    /\ shaders' = newPrograms([shaders EXCEPT !.main = "running", !.request = "resolved",
                                              !.default = "defaultShaderProgram",
                                              !.normalMap = "normalMapShaderProgram"],
                              settings)
    /\ pending' = [m \in DOMAIN pending |-> [pending[m] EXCEPT !.state = "fetching"]]
    /\ lastOp' = "event"
    /\ UNCHANGED <<node, displayCharacters, lastCall, visibleSet, call, settings, passes, textures>>

NextSamples ==
    \/ KeyS
    \/ \E u \in 1..MaxUpdates : SourceFetched(u)
    \/ MainLoaded

SpecSamples == InitSamples /\ [][NextSamples]_vars

NoFetchPending == shaders.updates = << >> /\ shaders.main = "running"

\* C13: once no shader fetch is pending, the SSAO, SSAO+ and HBAO programs
\* are compiled with the selected count sampleCounts[sampleCountIndex] and
\* hold a kernel of that many vectors
C13_ProgramsMatchSelectedCount ==
    NoFetchPending =>
        \A program \in {shaders.ssao, shaders.ssaoPlus, shaders.hbao} :
            /\ program.numSamples = sampleCounts[settings.sampleCountIndex + 1]
            /\ program.vectors = sampleCounts[settings.sampleCountIndex + 1]

\* no fetch pending after S was pressed at least twice
C13_Witness ==
    /\ NoFetchPending
    /\ settings.sampleCountIndex = 3
    /\ shaders.ssao.numSamples = 64
    /\ shaders.hbao.vectors = 64

----------------------------------------------------------------------------
(* SpecLoad: main from its awaits on, with at most one fetch that fails    *)

InitLoad ==
    /\ node = [n \in ProgNodes |-> IF n \in {environmentRoot, characterRoot}
                                   THEN TreeNode("TreeNode") ELSE Free]
    /\ pending \in [Models -> {[Requested(parent, placement, file) EXCEPT
                                   !.state = "unrequested"] :
                                  parent \in {environmentRoot, characterRoot},
                                  placement \in Placements, file \in Files}]
    /\ displayCharacters = TRUE
    /\ lastOp = "init"
    /\ lastCall = NoCall
    /\ visibleSet = << >>
    /\ call = Idle
    /\ settings = InitSettings
    /\ shaders = [NoShaders EXCEPT !.main = "awaitShaders"]
    /\ passes = << >>
    /\ textures = NoTextures

FailedStates == {"objFailed", "mtlFailed"}

NoFailure ==
    shaders.failed = {} /\ \A m \in DOMAIN pending : pending[m].state \notin FailedStates

\* a getTextFile of ShaderProgram.fetchSource rejects while main awaits
\* requestShaders: the await in the async executor of requestShaders throws,
\* the executor calls neither resolve nor reject, and main stays at its await
ShaderFetchFails ==
    /\ NoFailure
    /\ shaders.main = "awaitShaders"
    /\ shaders' = [shaders EXCEPT !.failed = {"shaders"}]
    /\ lastOp' = "event"
    /\ UNCHANGED <<node, pending, displayCharacters, lastCall, visibleSet, call, settings, passes, textures>>

\* the getTextFile of the OBJ or of the MTL file of model m rejects: the
\* await in the async executor of ObjModelNode.create throws, and the
\* executor calls neither resolve nor reject
ModelFetchFails(m, failed) ==
    /\ NoFailure
    /\ pending[m].state = "fetching"
    /\ pending' = [pending EXCEPT ![m].state = failed]
    /\ lastOp' = "event"
    /\ lastCall' = NoCall
    /\ visibleSet' = << >>
    /\ passes' = << >>
    /\ UNCHANGED <<node, displayCharacters, call, settings, shaders, textures>>

\* the then-callback of TextureData.fromFile for a texture of the materials
\* of model m: the default is replaced by the loaded image
TextureThen(m, slot) ==
    /\ pending[m].material.created
    /\ pending[m].material[slot] = "default"
    /\ pending' = [pending EXCEPT ![m].material[slot] = "image"]
    /\ lastOp' = "event"
    /\ lastCall' = NoCall
    /\ visibleSet' = << >>
    /\ passes' = << >>
    /\ UNCHANGED <<node, displayCharacters, call, settings, shaders, textures>>

\* a frame of the loop renderModels keeps going with requestAnimationFrame
LoopFrame(f) == shaders.main = "running" /\ Frame(f)

NextLoad ==
    \/ ShaderFetchFails
    \/ MainLoaded
    \/ \E m \in Models, failed \in FailedStates : ModelFetchFails(m, failed)
    \/ \E m \in Models : LoadComplete(m)
    \/ \E m \in Models : MeshComplete(m)
    \/ \E f \in 1..Len(ViewFrustums) : LoopFrame(f)

SpecLoad == InitLoad /\ [][NextLoad]_vars

\* C16: once the fetch of a file has failed, the promise of the loader call
\* that requested it is rejected, and no node of a failed model is in the
\* hierarchy
C16_FailedLoadRejects ==
    /\ "shaders" \in shaders.failed => shaders.request = "rejected"
    /\ \A m \in DOMAIN pending :
          pending[m].state \in FailedStates =>
              /\ pending[m].promise = "rejected"
              /\ node[ModelNode(m)].kind = "free"

\* C17: after one failed load, once main has nothing left to wait for, the
\* frame loop is running
C17_FailureNotFatalToFrames ==
    (~NoFailure /\ ~MainCanProceed) => shaders.main = "running"

----------------------------------------------------------------------------
(* SpecTextures: TextureData.fromFile, image loads completing and failing   *)

\* texture file names, and the cap on the promises fromFile creates
MaxTextures == 3
MaxLoads == 4
TextureFiles == 1..MaxTextures

\* a faulty variant: a promise counts as cached only once it has settled
cachedWhenSettled(t, file) ==
    file \in DOMAIN t.cache /\ t.promises[t.cache[file]].state # "pending"

\* textureFile in TextureData.textureCache
cached(t, file) == file \in DOMAIN t.cache

\* TextureData.fromFile(textureFile): the cached promise, or a new promise
\* whose executor starts the image load at once and which is put in the cache
fromFile(file) ==
    /\ IF cached(textures, file)
       THEN textures' = [textures EXCEPT
                !.returned = @ \cup {<<file, textures.cache[file]>>},
                !.last = [file |-> file, promise |-> textures.cache[file], hit |-> TRUE]]
       ELSE LET promise == Len(textures.promises) + 1 IN
            /\ promise <= MaxLoads
            /\ textures' = [textures EXCEPT
                !.promises = Append(@, [file |-> file, state |-> "pending"]),
                !.cache = [x \in DOMAIN @ \cup {file} |->
                              IF x = file THEN promise ELSE @[x]],
                !.returned = @ \cup {<<file, promise>>},
                !.last = [file |-> file, promise |-> promise, hit |-> FALSE]]
    /\ lastOp' = "fromFile"
    /\ UNCHANGED <<node, pending, displayCharacters, lastCall, visibleSet, call, settings, shaders, passes>>

\* textureImage.onload of the load promise p started: resolve(newData)
ImageLoaded(p) ==
    /\ textures.promises[p].state = "pending"
    /\ textures' = [textures EXCEPT !.promises[p].state = "resolved"]
    /\ lastOp' = "onload"
    /\ UNCHANGED <<node, pending, displayCharacters, lastCall, visibleSet, call, settings, shaders, passes>>

\* textureImage.onerror of the load promise p started: reject(...)
ImageFailed(p) ==
    /\ textures.promises[p].state = "pending"
    /\ textures' = [textures EXCEPT !.promises[p].state = "rejected"]
    /\ lastOp' = "onerror"
    /\ UNCHANGED <<node, pending, displayCharacters, lastCall, visibleSet, call, settings, shaders, passes>>

InitTextures ==
    /\ node = InitNode
    /\ pending = << >>
    /\ displayCharacters = TRUE
    /\ lastOp = "init"
    /\ lastCall = NoCall
    /\ visibleSet = << >>
    /\ call = Idle
    /\ InitRest

NextTextures ==
    \/ \E file \in TextureFiles : fromFile(file)
    \/ \E p \in 1..Len(textures.promises) : ImageLoaded(p)
    \/ \E p \in 1..Len(textures.promises) : ImageFailed(p)

SpecTextures == InitTextures /\ [][NextTextures]_vars

\* the image loads started so far for a file: one per promise created for it
LoadsStarted(file) ==
    Cardinality({p \in 1..Len(textures.promises) : textures.promises[p].file = file})

\* C18: whatever the interleaving of fromFile calls with image loads
\* completing and failing, at most one image load has been started per file
\* name, and all the calls made for one file name have returned one and the
\* same promise
C18_OneLoadAndOnePromisePerFile ==
    /\ \A file \in TextureFiles : LoadsStarted(file) <= 1
    /\ \A r1, r2 \in textures.returned : r1[1] = r2[1] => r1[2] = r2[2]

\* a call has just been answered from the cache while its load is still
\* pending, after a load of another file has failed and one has completed
C18_Witness ==
    /\ lastOp = "fromFile"
    /\ textures.last.hit
    /\ textures.promises[textures.last.promise].state = "pending"
    /\ \E p, q \in 1..Len(textures.promises) :
          /\ textures.promises[p].state = "rejected"
          /\ textures.promises[q].state = "resolved"

----------------------------------------------------------------------------
(* the ray constants of HBAOShaderProgram                                   *)

HbaoCall == call.op = "HBAOShaderProgram"

ConfiguredCounts == {sampleCounts[i] : i \in 1..Len(sampleCounts)}

\* r is the integer part of the square root of n
IsFloorSqrt(r, n) == r * r <= n /\ n < (r + 1) * (r + 1)

\* C21 as stated: for every configured sample count n the program is compiled
\* with NUM_RAYS = SAMPLES_PER_RAY = floor(sqrt(n)), and NUM_RAYS times
\* SAMPLES_PER_RAY equals n
C21_RaysTimesSamplesIsCount ==
    (HbaoCall /\ call.numSamples \in ConfiguredCounts) =>
        /\ call.result.numRays = call.result.samplesPerRay
        /\ IsFloorSqrt(call.result.numRays, call.numSamples)
        /\ call.result.numRays * call.result.samplesPerRay = call.numSamples

\* C21 amended: for every sample count n the program is compiled with
\* NUM_RAYS = SAMPLES_PER_RAY = floor(sqrt(n)); NUM_RAYS times SAMPLES_PER_RAY
\* never exceeds n and equals n exactly when n is a perfect square
C21_RaysTimesSamplesAtMostCount ==
    HbaoCall =>
        /\ call.result.numRays = call.result.samplesPerRay
        /\ IsFloorSqrt(call.result.numRays, call.numSamples)
        /\ call.result.numRays * call.result.samplesPerRay <= call.numSamples
        /\ call.result.numRays * call.result.samplesPerRay = call.numSamples
              <=> \E r \in 0..call.numSamples : r * r = call.numSamples

\* the program built for the configured count 128: 11 rays of 11 samples
C21_Witness ==
    /\ HbaoCall
    /\ call.numSamples = 128
    /\ call.result.numRays = 11
    /\ call.result.numRays * call.result.samplesPerRay = 121

----------------------------------------------------------------------------
(* AABB.merge                                                               *)

MergeCall == call.op = "merge"

----------------------------------------------------------------------------
(* Plane.intersectionOf3Planes                                              *)

TripleCall == call.op = "intersectionOf3Planes"

\* the triple product n1 . (n2 x n3) of the three normals
TripleProduct == Dot(call.p1.n, Cross(call.p2.n, call.p3.n))

\* C23: intersectionOf3Planes returns no intersection exactly when the
\* determinant of the three normals is zero, and otherwise a point whose
\* signed distance to each of the three planes is 0
C23_PointOnAllThreePlanes ==
    TripleCall =>
        /\ call.result.hit <=> TripleProduct # 0
        /\ call.result.hit =>
              /\ distanceToRational(call.p1, call.result) = 0
              /\ distanceToRational(call.p2, call.result) = 0
              /\ distanceToRational(call.p3, call.result) = 0

\* the planes x = 1, y = 1 and z = 1 meet in (1, 1, 1)
C23_Witness ==
    /\ TripleCall
    /\ call.p1 = Plane(<<1, 0, 0>>, -1)
    /\ call.p2 = Plane(<<0, 1, 0>>, -1)
    /\ call.p3 = Plane(<<0, 0, 1>>, -1)
    /\ call.result = [hit |-> TRUE, num |-> <<1, 1, 1>>, den |-> 1]

----------------------------------------------------------------------------
(* SpecRay: AABB.doesRayIntersect, called once and called again with other  *)
(* Z components; coordinates are in units of 0.5                            *)

\* the Z components <<min.z, max.z, origin.z, dir.z>> of a call
RayZs == {<<0, 2, 1, 0>>, <<0, 2, 5, 1>>, <<0, 2, -3, 1>>, <<-4, -2, 1, 0>>}

RayBoxesXY == {<<<<0, 0>>, <<2, 2>>>>, <<<<-2, 1>>, <<1, 4>>>>}
RayOriginsXY == {-2, 1, 2, 3} \X {-2, 1, 2, 3}
RayDirsXY == {-1, 0, 1, 2} \X {-1, 0, 1, 2}

RayCall(xy, o, d, z) ==
    LET box == AABB(<<xy[1][1], xy[1][2], z[1]>>, <<xy[2][1], xy[2][2], z[2]>>)
        origin == <<o[1], o[2], z[3]>>
        dir == <<d[1], d[2], z[4]>>
    IN  [op |-> "doesRayIntersect", box |-> box, origin |-> origin, dir |-> dir,
         xy |-> xy, z |-> z, result |-> doesRayIntersect(box, origin, dir)]

CallDoesRayIntersect(xy, o, d, z) ==
    /\ call = Idle
    /\ call' = RayCall(xy, o, d, z)
    /\ lastCall' = NoCall
    /\ UNCHANGED <<node, pending, displayCharacters, lastOp, visibleSet, settings, shaders, passes, textures>>

\* the call made again with the same X and Y components and other Z
\* components; lastCall keeps the Z components and the result of the first
CallDoesRayIntersectOtherZ(z) ==
    /\ call # Idle
    /\ lastCall = NoCall
    /\ z # call.z
    /\ call' = RayCall(call.xy, <<call.origin[1], call.origin[2]>>,
                       <<call.dir[1], call.dir[2]>>, z)
    /\ lastCall' = [node |-> 0, frustum |-> 0, drawAll |-> FALSE,
                    z |-> call.z, result |-> call.result]
    /\ UNCHANGED <<node, pending, displayCharacters, lastOp, visibleSet, settings, shaders, passes, textures>>

NextRay ==
    \/ \E xy \in RayBoxesXY, o \in RayOriginsXY, d \in RayDirsXY, z \in RayZs :
          CallDoesRayIntersect(xy, o, d, z)
    \/ \E z \in RayZs : CallDoesRayIntersectOtherZ(z)

SpecRay == InitGeom /\ [][NextRay]_vars

RayCalled == call # Idle

\* the parameters at which the ray can enter the box: 0 and the crossings of
\* the six faces
RayParameters ==
    {Quot(0, 1)} \cup
    {Quot(f[i] - call.origin[i], call.dir[i]) :
        f \in {call.box.min, call.box.max}, i \in {j \in 1..3 : call.dir[j] # 0}}

\* origin + t dir is in the box
InBoxAt(t) ==
    \A i \in 1..3 :
        /\ call.box.min[i] * t.den <= call.origin[i] * t.den + t.num * call.dir[i]
        /\ call.origin[i] * t.den + t.num * call.dir[i] <= call.box.max[i] * t.den

\* the ray passes through the box at some parameter t >= 0
PassesThrough == \E t \in RayParameters : t.num >= 0 /\ InBoxAt(t)

\* C24: doesRayIntersect returns true for every ray that passes through the
\* box at some parameter t >= 0
C24_NoFalseNegatives ==
    (RayCalled /\ PassesThrough) => call.result

\* the ray of the scenario: box (0,0,0)-(1,1,1), origin (-1, 0.5, 0.5), dir (1,0,0)
ScenarioRay ==
    /\ call.box = AABB(<<0, 0, 0>>, <<2, 2, 2>>)
    /\ call.origin = <<-2, 1, 1>>
    /\ call.dir = <<1, 0, 0>>

\* C24, the scenario alone: the ray of the scenario is reported as intersecting
C24_ScenarioIntersects == (RayCalled /\ ScenarioRay) => call.result

\* C26: a call that differs from an earlier one only in the Z components of
\* the box, the origin and the direction returns what the earlier one returned
C26_ResultIndependentOfZ ==
    (RayCalled /\ lastCall # NoCall) => call.result = lastCall.result

\* a ray that passes through the box with the first Z components and misses
\* it in Z with the second, reported as intersecting both times
C26_Witness ==
    /\ RayCalled
    /\ lastCall # NoCall
    /\ lastCall.z = <<0, 2, 1, 0>>
    /\ call.z = <<-4, -2, 1, 0>>
    /\ ~PassesThrough
    /\ call.result
    /\ lastCall.result

----------------------------------------------------------------------------
(* SpecOutside: the two rejection tests of Frustum on the same three points *)

\* points inside the frustums, on their planes and beyond them
OutsidePoints ==
    {<<0, 0, 0>>, <<2, 0, 0>>, <<3, 0, 0>>, <<3, 3, 0>>, <<2, 2, 2>>, <<-3, 0, 1>>,
     <<1, 1, 1>>}

CallOutsideTests(f, v1, v2, v3) ==
    /\ call = Idle
    /\ call' = [op |-> "outsideTests", frustum |-> f, vertices |-> <<v1, v2, v3>>,
                isTriangleOutside |-> isTriangleOutside(GeomFrustums[f], v1, v2, v3),
                areVerticesOutside |-> areVerticesOutside(GeomFrustums[f], <<v1, v2, v3>>)]
    /\ UNCHANGED <<node, pending, displayCharacters, lastOp, lastCall, visibleSet, settings, shaders, passes, textures>>

NextOutside ==
    \E f \in 1..Len(GeomFrustums), v1 \in OutsidePoints, v2 \in OutsidePoints,
       v3 \in OutsidePoints : CallOutsideTests(f, v1, v2, v3)

SpecOutside == InitGeom /\ [][NextOutside]_vars

OutsideCall == call.op = "outsideTests"

\* the signed distances of the three points to plane i of the frustum
Distances(i) ==
    {distanceToPoint(GeomFrustums[call.frustum].planes[i], call.vertices[k]) : k \in 1..3}

----------------------------------------------------------------------------
(* the textures a pass samples and the framebuffer it draws into            *)

\* the textures attached to a framebuffer
Attached(target) ==
    CASE target = "mrt" -> GeometryBuffers
      [] target = "offscreen0" -> {"offscreen0"}
      [] target = "offscreen1" -> {"offscreen1"}
      [] OTHER -> {}

\* C27: in every frame, whatever the technique, the toggles and the display
\* buffer, no pass samples a texture attached to the framebuffer it draws
\* into, and every offscreen texture a pass samples has been drawn into or
\* cleared by an earlier pass of the same frame
C27_NoFeedbackAndFreshOffscreen ==
    AfterFrame =>
        \A i \in 1..Len(passes) :
            /\ passes[i].reads \cap Attached(passes[i].target) = {}
            /\ \A texture \in passes[i].reads \cap {"offscreen0", "offscreen1"} :
                  \E j \in 1..(i - 1) : texture \in Attached(passes[j].target)

\* an Unsharpen-Mask frame that shows buffer 0, written by the depth pass and
\* again by the horizontal blur that sampled buffer 1
C27_Witness ==
    /\ AfterFrame
    /\ settings.currentTechnique = UnsharpenMask
    /\ settings.currentBuffer = DisplaySSAO
    /\ IsPass(4, "gausHoriz", "offscreen1", "offscreen0")
    /\ IsPass(6, "screenColor", "offscreen0", "screen")

----------------------------------------------------------------------------
(* SpecFrames: the presses of S and T, the arrival of the shader sources    *)
(* and the frames of the loop main starts                                   *)

NextFrames ==
    \/ KeyS
    \/ KeyT
    \/ \E u \in 1..MaxUpdates : SourceFetched(u)
    \/ MainLoaded
    \/ \E f \in 1..Len(ViewFrustums) : LoopFrame(f)

SpecFrames == InitSamples /\ [][NextFrames]_vars

\* the sample counts compiled into the AO programs the frame has drawn with
CountsUsed ==
    {shaders[passes[i].program].numSamples : i \in PassesOf({"ssao", "ssaoPlus", "hbao"})}

\* C28 as stated: whatever the interleaving of S presses, shader-fetch
\* completions and frames, the sample count compiled into the AO program a
\* frame uses is the count selected at that moment
C28_FrameUsesSelectedCount ==
    AfterFrame => \A count \in CountsUsed : count = sampleCounts[settings.sampleCountIndex + 1]

\* C28 amended: the same for the frames drawn while no shader fetch started
\* by an S press is pending
C28_FrameUsesSelectedCountOnceFetched ==
    (AfterFrame /\ NoFetchPending) =>
        \A count \in CountsUsed : count = sampleCounts[settings.sampleCountIndex + 1]

\* a frame drawn with the HBAO program after two presses of S whose fetches
\* have completed
C28_Witness ==
    /\ AfterFrame
    /\ NoFetchPending
    /\ settings.sampleCountIndex = 3
    /\ CountsUsed = {64}
    /\ PassesOf({"hbao"}) # {}

----------------------------------------------------------------------------
(* SpecInstances: main from its awaits on, the loads of the models, of      *)
(* their meshes and of their textures, and the frames                       *)

\* the materials of the scene name a diffuse and a normal texture file and no
\* specular texture file
TextureSlots == {"diffuseTexture", "normalTexture"}

InitInstances ==
    /\ node = [n \in ProgNodes |-> IF n \in {environmentRoot, characterRoot}
                                   THEN TreeNode("TreeNode") ELSE Free]
    /\ pending \in [Models -> {[Requested(parent, <<<<4, 0, 0>>, <<2, 2, 2>>>>, file) EXCEPT
                                   !.state = "unrequested"] :
                                  parent \in {environmentRoot, characterRoot},
                                  file \in Files}]
    /\ displayCharacters = TRUE
    /\ lastOp = "init"
    /\ lastCall = NoCall
    /\ visibleSet = << >>
    /\ call = Idle
    /\ settings = InitSettings
    /\ shaders = [NoShaders EXCEPT !.main = "awaitShaders"]
    /\ passes = << >>
    /\ textures = NoTextures

NextInstances ==
    \/ MainLoaded
    \/ \E m \in Models : LoadComplete(m)
    \/ \E m \in Models : MeshComplete(m)
    \/ \E m \in Models, slot \in TextureSlots : TextureThen(m, slot)
    \/ \E f \in 1..Len(ViewFrustums) : LoopFrame(f)

SpecInstances == InitInstances /\ [][NextInstances]_vars


\* the MeshInstance nodes below the two roots of the scene
InstancesInHierarchy ==
    {n \in Below(node, environmentRoot) \cup Below(node, characterRoot) :
        node[n].kind = "MeshInstance"}

\* what the processMesh callback gave instance n: its shader and the
\* materials of its model
Given(n) ==
    {[shader |-> pending[m].instances[i].shader, material |-> pending[m].material] :
        m \in {m \in DOMAIN pending : \E i \in 1..Len(pending[m].instances) :
                  pending[m].instances[i].node = n},
        i \in {i \in 1..MaxMeshes : \E m \in DOMAIN pending :
                  i <= Len(pending[m].instances) /\ pending[m].instances[i].node = n}}

\* C29: whatever the interleaving of startup, load completions and frames,
\* every MeshInstance in the hierarchy at a frame has a defined shader
\* program, a material whose three textures are not null, and the bounds
\* updateBounds() computes for it
C29_InstancesCompleteAtFrames ==
    AfterFrame =>
        \A n \in InstancesInHierarchy :
            /\ Given(n) # {}
            /\ \A g \in Given(n) :
                  /\ g.shader \in {"defaultShaderProgram", "normalMapShaderProgram"}
                  /\ g.material.created
                  /\ g.material.diffuseTexture \in {"default", "image"}
                  /\ g.material.specularTexture \in {"default", "image"}
                  /\ g.material.normalTexture \in {"default", "image"}
            /\ node[n].aabb = leafBounds(node[n])

\* a frame that finds an instance with the normal-map program whose material
\* has one texture loaded and two still the defaults
C29_Witness ==
    /\ AfterFrame
    /\ \E n \in InstancesInHierarchy : \E g \in Given(n) :
          /\ g.shader = "normalMapShaderProgram"
          /\ g.material.diffuseTexture = "image"
          /\ g.material.specularTexture = "default"
          /\ g.material.normalTexture = "default"

----------------------------------------------------------------------------
(* the vertices clipConvexPolygon inserts                                   *)

\* the vertices inserted by the call, each with the edge it was made for
Inserted ==
    IF call.result.clipped THEN {}
    ELSE {ins \in insertions(call.plane, call.vertices) :
             \E k \in 1..Len(call.result.vertices) :
                 call.result.vertices[k] = [num |-> ins.v.num, den |-> ins.v.den]}

\* the rational point q is on the closed segment from p1 to p2
OnSegment(q, p1, p2) ==
    LET a == VScale(p1.num, q.den * p2.den)
        b == VScale(p2.num, q.den * p1.den)
        x == VScale(q.num, p1.den * p2.den)
    IN  /\ Cross(VSub(x, a), VSub(b, a)) = <<0, 0, 0>>
        /\ \A k \in 1..3 : Min2(a[k], b[k]) <= x[k] /\ x[k] <= Max2(a[k], b[k])

\* C30: every vertex clipConvexPolygon inserts has signed distance 0 to the
\* plane and is on the closed segment between the two consecutive input
\* vertices of its edge
C30_InsertedOnPlaneAndSegment ==
    ClipCall =>
        \A ins \in Inserted :
            /\ distanceToRational(call.plane, ins.v) = 0
            /\ OnSegment(ins.v, call.vertices[ins.i], call.vertices[ins.j])

\* C30, the first half alone: every inserted vertex has signed distance 0
C30_InsertedOnPlane ==
    ClipCall => \A ins \in Inserted : distanceToRational(call.plane, ins.v) = 0

\* C30, the second half for the edges that cross the plane: the inserted
\* vertex is on the segment when one end of the edge has signed distance <= 0
C30_InsertedOnCrossingSegment ==
    ClipCall =>
        \A ins \in Inserted :
            (\E e \in {ins.i, ins.j} : distanceToRational(call.plane, call.vertices[e]) <= 0)
                => OnSegment(ins.v, call.vertices[ins.i], call.vertices[ins.j])

============================================================================
